---- MODULE Spec2Model ----
(***************************************************************************)
(* NOVYRA trust-and-abuse detection core.                                  *)
(*                                                                         *)
(* The module models, from apps/ai-agent/app/services:                     *)
(*   ai_brain/trust_scorer.py        the nine-component trust score        *)
(*   anti_abuse/vote_analyzer.py     mutual voting, vote rings, risk       *)
(*   anti_abuse/similarity_detector.py  fingerprints and duplicate checks  *)
(*   anti_abuse/ip_clustering.py     shared-identifier clusters            *)
(*                                                                         *)
(* Python floats are modelled as exact rationals <<num, den>> (den > 0,    *)
(* lowest terms).  A cosine similarity, which needs a square root, is      *)
(* carried as its square; all vectors are non-negative, so order and the   *)
(* threshold comparisons are preserved.                                    *)
(*                                                                         *)
(* Each subsystem has its own variables and its own specification          *)
(* (SpecTrust, SpecTier, SpecVote, SpecSim, SpecIP); a specification       *)
(* leaves the other subsystems' variables at their idle value.             *)
(***************************************************************************)
EXTENDS Integers, Sequences, FiniteSets, TLC

VARIABLES
    \* ---- trust_scorer.py: what db.user.find_unique and the component
    \* ---- queries read for the scored user, and the returned TrustResult
    masteryRecords,     \* user.masteryRecords: masteryScore -> number of records
    factCheckLog,       \* db.fact_check_log rows of the user, newest first
    answers,            \* user.answers: sequence of [upvotes, downvotes] counts
    accountAgeDays,     \* (datetime.now() - user.createdAt).days
    interactionRows,    \* rows of the DISTINCT target_user_id raw query
    userVotes,          \* user.upvotes + user.downvotes: answerId -> votes cast
    userAbuseFlags,     \* abuse_flag rows of the user: sequence of [resolved]
    trustResult,        \* the TrustResult of the last calculate_trust_score
    \* ---- get_trust_tier as a function of its argument
    tierScoreA, tierScoreB, tierOutA, tierOutB,
    \* ---- vote_analyzer.py
    voteGraph,          \* db.vote_graph: the set of vote rows
    voteReport,         \* the VoteAnalysisReport of the last analyze_* call
    \* ---- similarity_detector.py
    contentEmbeddings,  \* db.content_embedding: the set of fingerprint rows
    simNow,             \* datetime.utcnow(), in days
    simReport,          \* the SimilarityReport of the last check_similarity
    \* ---- ip_clustering.py
    activityLog,        \* db.moderation_log rows with action ACTIVITY_LOG
    answerRows,         \* db.answer rows joined with the doubt they answer
    ipReport,           \* what the last detect_ip_clusters or
                        \* analyze_sock_puppets call returned
    \* ---- the flag emitters of the three detectors
    abuseFlags,         \* db.abuse_flag: the rows in creation order
    \* ---- the store as seen through get_db()
    storeFault,         \* which store calls raise: none, the calls on one
                        \* table, or every call (the store is unreachable)
    \* ---- detect_vote_ring, one step at a time
    dfsStack,           \* the frames of find_cycle, the outermost first
    \* ---- RateLimiter
    rlNow,              \* time.time(), in seconds
    rlRequests,         \* self.requests: key -> the timestamps kept for the key
    rlLastCleanup,      \* self.last_cleanup
    rlResult,           \* what the last is_allowed call returned
    rlGranted,          \* the caller's record: key -> times of the allowed calls
    \* ---- cosine_similarity on floating-point vectors
    cosA, cosB,         \* the two argument vectors
    cosOut,             \* the returned float, or the call is still to be made
    \* ---- a pure function of trust_scorer.py applied to an argument
    fnArg,              \* the argument
    fnOut,              \* the returned value, once the call is made
    \* ---- check_similarity calls in flight, one store call at a time
    simCalls,           \* call -> its arguments, position and local variables
    \* ---- recalculate_trust_score handlers in flight
    trustSnapshots,     \* db.trust_score: the set of snapshot rows
    trustScoreCache,    \* user.trustScoreCache of the scored user
    recalcHandlers      \* handler -> its position and its trust_result

trustVars == <<masteryRecords, factCheckLog, answers, accountAgeDays,
               interactionRows, userVotes, userAbuseFlags, trustResult>>
tierVars == <<tierScoreA, tierScoreB, tierOutA, tierOutB>>
voteVars == <<voteGraph, voteReport>>
simVars == <<contentEmbeddings, simNow, simReport>>
ipVars == <<activityLog, answerRows, ipReport>>
flagVars == <<abuseFlags>>
faultVars == <<storeFault>>
dfsVars == <<dfsStack>>
rlVars == <<rlNow, rlRequests, rlLastCleanup, rlResult, rlGranted>>
cosVars == <<cosA, cosB, cosOut>>
fnVars == <<fnArg, fnOut>>
concVars == <<simCalls>>
recalcVars == <<trustSnapshots, trustScoreCache, recalcHandlers>>
asyncVars == <<concVars, recalcVars>>
extVars == <<rlVars, cosVars, fnVars, asyncVars>>
coreVars == <<trustVars, tierVars, voteVars, simVars, ipVars, flagVars, faultVars, dfsVars>>
otherThanRate == <<coreVars, cosVars, fnVars, asyncVars>>
otherThanCos == <<coreVars, rlVars, fnVars, asyncVars>>
otherThanFn == <<coreVars, rlVars, cosVars, asyncVars>>
vars == <<trustVars, tierVars, voteVars, simVars, ipVars, flagVars, faultVars, dfsVars,
          extVars>>

\* what each subsystem's actions leave alone
otherThanTrust == <<tierVars, voteVars, simVars, ipVars, flagVars, faultVars, dfsVars, extVars>>
otherThanTier == <<trustVars, voteVars, simVars, ipVars, flagVars, faultVars, dfsVars, extVars>>
otherThanVote == <<trustVars, tierVars, simVars, ipVars, flagVars, faultVars, dfsVars, extVars>>
otherThanSim == <<trustVars, tierVars, voteVars, ipVars, flagVars, faultVars, dfsVars, extVars>>
\* count_interactions reads db.vote_graph, so the clustering actions own it too
otherThanIP == <<trustVars, tierVars, simVars, voteReport, flagVars, faultVars, dfsVars, extVars>>

None == "None"

\* no call of calculate_trust_score has returned since the store last changed
NoTrustResult == [user_id |-> None]
HasTrustResult == trustResult.user_id # None

\* no analyze_user_voting / analyze_content_voting call has returned yet
NoVoteReport == [subject |-> None]
HasVoteReport == voteReport.subject # None

VoteIdle == voteGraph = {} /\ voteReport = NoVoteReport

\* no check_similarity call has returned yet
NoSimReport == [content_id |-> None]
HasSimReport == simReport.content_id # None

SimIdle == contentEmbeddings = {} /\ simNow = 0 /\ simReport = NoSimReport

\* neither detect_ip_clusters nor analyze_sock_puppets has returned yet
NoIpReport == [call |-> None]
HasIpReport == ipReport.call # None

IPIdle == activityLog = {} /\ answerRows = {} /\ ipReport = NoIpReport

FlagIdle == abuseFlags = <<>>

\* every store call succeeds
StoreUp == storeFault = None

\* find_cycle is not running
DfsIdle == dfsStack = <<>>

\* the keys the limiter is asked about
RateKeys == {"k1", "k2"}

\* no is_allowed call has returned yet
NoRateResult == [key |-> None]

\* a RateLimiter just constructed, at time 0
RlIdle ==
    /\ rlNow = 0
    /\ rlRequests = [key \in RateKeys |-> <<>>]
    /\ rlLastCleanup = 0
    /\ rlResult = NoRateResult
    /\ rlGranted = [key \in RateKeys |-> <<>>]

\* cosine_similarity is not used
CosIdle == cosA = <<>> /\ cosB = <<>> /\ cosOut = [k |-> None]

\* no pure function is being applied
NotCalled == [done |-> FALSE]
FnIdle == fnArg = 0 /\ fnOut = NotCalled

\* no check_similarity call is in flight
ConcIdle == simCalls = <<>>

\* the user.trustScoreCache column before it is first written
NoCache == [set |-> FALSE]

\* no snapshot row, no cached score and no handler in flight
RecalcIdle ==
    /\ trustSnapshots = {}
    /\ trustScoreCache = NoCache
    /\ recalcHandlers = <<>>

AsyncIdle == ConcIdle /\ RecalcIdle

ExtIdle == RlIdle /\ CosIdle /\ FnIdle /\ AsyncIdle

(***************************************************************************)
(* Exact rational arithmetic                                               *)
(***************************************************************************)
RECURSIVE GCD(_, _)
GCD(a, b) == IF b = 0 THEN a ELSE GCD(b, a % b)

Abs(x) == IF x < 0 THEN -x ELSE x

Rat(n, d) ==
    LET g == GCD(Abs(n), Abs(d))
        s == IF d < 0 THEN -1 ELSE 1
    IN  <<(s * n) \div g, (s * d) \div g>>

RInt(n) == <<n, 1>>
RAdd(x, y) ==
    LET g == GCD(x[2], y[2])
    IN  Rat(x[1] * (y[2] \div g) + y[1] * (x[2] \div g), (x[2] \div g) * y[2])
RNeg(x) == <<-x[1], x[2]>>
RSub(x, y) == RAdd(x, RNeg(y))
RMul(x, y) ==
    LET g1 == GCD(Abs(x[1]), y[2])
        g2 == GCD(Abs(y[1]), x[2])
        a == IF g1 = 0 THEN 1 ELSE g1
        b == IF g2 = 0 THEN 1 ELSE g2
    IN  Rat((x[1] \div a) * (y[1] \div b), (x[2] \div b) * (y[2] \div a))
RDiv(x, y) == RMul(x, Rat(y[2], y[1]))
RLe(x, y) == x[1] * y[2] <= y[1] * x[2]
RLt(x, y) == x[1] * y[2] < y[1] * x[2]
RMax(x, y) == IF RLe(x, y) THEN y ELSE x
RMin(x, y) == IF RLe(x, y) THEN x ELSE y
InUnit(x) == RLe(RInt(0), x) /\ RLe(x, RInt(1))

RECURSIVE SumSeq(_)
SumSeq(s) == IF s = <<>> THEN 0 ELSE Head(s) + SumSeq(Tail(s))

RECURSIVE SumFun(_, _)
SumFun(f, S) ==
    IF S = {} THEN 0
    ELSE LET x == CHOOSE x \in S : TRUE IN f[x] + SumFun(f, S \ {x})

(***************************************************************************)
(* Trust score: bounds of the explored store                               *)
(***************************************************************************)
MaxHistory == 5         \* rows the scored user owns over all history tables
MasteryScores == {0, 1} \* masteryScore values of the explored records
Verdicts == {"PASS", "FLAG"}
AgeSamples == {0, 365}  \* explored account ages, in days
PartnerSamples == {0, 2, 5, 10}  \* explored sizes of the raw query's result
AnswerIds == {"ans1", "ans2"}    \* answers the user can vote on
UserIds == {"u1", "ghost"}       \* "u1" exists, "ghost" is in no table

HistorySize ==
    SumFun(masteryRecords, MasteryScores) + Len(factCheckLog)
    + SumSeq([i \in 1..Len(answers) |-> 1 + answers[i].upvotes + answers[i].downvotes])
    + SumFun(userVotes, AnswerIds) + Len(userAbuseFlags)

(***************************************************************************)
(* trust_scorer.py: the nine components                                    *)
(***************************************************************************)
\* COMPONENT_WEIGHTS, in hundredths
COMPONENT_WEIGHTS ==
    [mastery_reliability |-> 20, nli_track_record |-> 20,
     community_validation |-> 15, account_age_trust |-> 10,
     interaction_entropy |-> 10, vote_pattern_score |-> 10,
     similarity_flags |-> 5, abuse_flags |-> 5, ip_clustering_risk |-> 5]

ComponentNames == DOMAIN COMPONENT_WEIGHTS

Clamp01(x) == RMax(RInt(0), RMin(RInt(1), x))

\* Component 1.  records: masteryScore -> count
calculate_mastery_reliability(records) ==
    LET n == SumFun(records, DOMAIN records)
    IN  IF n < 5 THEN Rat(1, 2)
        ELSE LET total == SumFun([s \in DOMAIN records |-> s * records[s]], DOMAIN records)
                 avg_mastery == Rat(total, n)
                 sq(s) == RMul(RSub(RInt(s), avg_mastery), RSub(RInt(s), avg_mastery))
                 RECURSIVE SqSum(_)
                 SqSum(S) ==
                     IF S = {} THEN RInt(0)
                     ELSE LET s == CHOOSE s \in S : TRUE
                          IN  RAdd(RMul(RInt(records[s]), sq(s)), SqSum(S \ {s}))
                 variance == RDiv(SqSum(DOMAIN records), RInt(n))
                 consistency == RMax(RInt(0), RSub(RInt(1), variance))
                 reliability == RAdd(RMul(avg_mastery, Rat(7, 10)),
                                     RMul(consistency, Rat(3, 10)))
             IN  Clamp01(reliability)

\* Component 2.  "take": 100 of the rows, newest first
FACT_CHECK_TAKE == 100

calculate_nli_track_record(log) ==
    LET fact_checks == SubSeq(log, 1, IF Len(log) < FACT_CHECK_TAKE THEN Len(log)
                                       ELSE FACT_CHECK_TAKE)
        passed == Cardinality({i \in 1..Len(fact_checks) : fact_checks[i] = "PASS"})
        total == Len(fact_checks)
    IN  IF total = 0 THEN Rat(1, 2) ELSE Rat(passed, total)

\* Component 3
calculate_community_validation(ans) ==
    LET total_upvotes == SumSeq([i \in 1..Len(ans) |-> ans[i].upvotes])
        total_downvotes == SumSeq([i \in 1..Len(ans) |-> ans[i].downvotes])
        total_votes == total_upvotes + total_downvotes
    IN  IF Len(ans) = 0 THEN Rat(1, 2)
        ELSE IF total_votes = 0 THEN Rat(1, 2)
        ELSE Clamp01(Rat(total_upvotes, total_votes))

\* a variant without the asymptote and without the clamp: age_days / 30
account_age_trust_linear(age_days) == Rat(age_days, 30)

\* a variant that grows linearly and reaches 1.0 after one year
account_age_trust_saturating(age_days) == Clamp01(Rat(age_days, 365))

\* Component 4: 1.0 - (1.0 / (1.0 + age_days / 30)), clamped
calculate_account_age_trust(age_days) ==
    Clamp01(RSub(RInt(1), RDiv(RInt(1), RAdd(RInt(1), Rat(age_days, 30)))))

\* Component 5: banded by the number of rows of the DISTINCT query
calculate_interaction_entropy(unique_users) ==
    IF unique_users < 2 THEN Rat(2, 10)
    ELSE IF unique_users < 5 THEN Rat(5, 10)
    ELSE IF unique_users < 10 THEN Rat(7, 10)
    ELSE RInt(1)

\* sorted(target_counts.values()): the positive counts, ascending
RECURSIVE SortedCounts(_, _)
SortedCounts(f, S) ==
    IF S = {} THEN <<>>
    ELSE LET m == CHOOSE x \in S : \A y \in S : f[x] <= f[y]
         IN  <<f[m]>> \o SortedCounts(f, S \ {m})

\* Component 6.  votes: answerId -> number of the user's votes on it
calculate_vote_pattern_score(votes) ==
    LET targets == {a \in DOMAIN votes : votes[a] > 0}
        total_votes == SumFun(votes, DOMAIN votes)
    IN  IF total_votes = 0 THEN RInt(1)
        ELSE IF total_votes < 5 THEN RInt(1)
        ELSE LET counts == SortedCounts(votes, targets)
                 n == Len(counts)
                 weighted == SumSeq([i \in 1..n |-> i * counts[i]])
                 gini == RSub(Rat(2 * weighted, n * SumSeq(counts)), Rat(n + 1, n))
             IN  RSub(RInt(1), gini)

\* Component 7: a constant (the detector is not consulted)
calculate_similarity_penalty(user_id) == RInt(1)

\* Component 8.  flags: the rows the include's resolved=False filter returned
calculate_abuse_penalty(flags) ==
    LET active_flags == {i \in 1..Len(flags) : ~flags[i].resolved}
    IN  IF active_flags = {} THEN RInt(1)
        ELSE RMax(RInt(0), RSub(RInt(1), RMul(Rat(2, 10), RInt(Cardinality(active_flags)))))

\* Component 9: a constant (the detector is not consulted)
calculate_ip_clustering_risk(user_id) == RInt(1)

\* a variant whose first boundary is upper-inclusive
get_trust_tier_le(score) ==
    IF RLe(score, Rat(30, 100)) THEN "Restricted"
    ELSE IF RLt(score, Rat(50, 100)) THEN "Novice"
    ELSE IF RLt(score, Rat(70, 100)) THEN "Contributor"
    ELSE IF RLt(score, Rat(85, 100)) THEN "Expert"
    ELSE "Trusted"

get_trust_tier(score) ==
    IF RLt(score, Rat(30, 100)) THEN "Restricted"
    ELSE IF RLt(score, Rat(50, 100)) THEN "Novice"
    ELSE IF RLt(score, Rat(70, 100)) THEN "Contributor"
    ELSE IF RLt(score, Rat(85, 100)) THEN "Expert"
    ELSE "Trusted"

RECURSIVE WeightedSumOver(_, _)
WeightedSumOver(c, S) ==
    IF S = {} THEN RInt(0)
    ELSE LET k == CHOOSE k \in S : TRUE
         IN  RAdd(RMul(c[k], Rat(COMPONENT_WEIGHTS[k], 100)), WeightedSumOver(c, S \ {k}))

\* final_score: the weighted sum of the nine components
WeightedSum(c) == WeightedSumOver(c, ComponentNames)

\* the result returned when db.user.find_unique finds no user
DefaultTrustResult ==
    [score |-> Rat(1, 2),
     components |->
        [mastery_reliability |-> Rat(1, 2), nli_track_record |-> Rat(1, 2),
         community_validation |-> Rat(1, 2), account_age_trust |-> RInt(0),
         interaction_entropy |-> Rat(1, 2), vote_pattern_score |-> Rat(1, 2),
         similarity_flags |-> RInt(1), abuse_flags |-> RInt(1),
         ip_clustering_risk |-> RInt(1)],
     tier |-> "Novice"]

\* the "abuseFlags": {"where": {"resolved": False}} include
UnresolvedFlags(flags) == SelectSeq(flags, LAMBDA f : ~f.resolved)

calculate_trust_score(user_id) ==
    IF user_id # "u1" THEN DefaultTrustResult
    ELSE LET components ==
                 [mastery_reliability |-> calculate_mastery_reliability(masteryRecords),
                  nli_track_record |-> calculate_nli_track_record(factCheckLog),
                  community_validation |-> calculate_community_validation(answers),
                  account_age_trust |-> calculate_account_age_trust(accountAgeDays),
                  interaction_entropy |-> calculate_interaction_entropy(interactionRows),
                  vote_pattern_score |-> calculate_vote_pattern_score(userVotes),
                  similarity_flags |-> calculate_similarity_penalty(user_id),
                  abuse_flags |-> calculate_abuse_penalty(UnresolvedFlags(userAbuseFlags)),
                  ip_clustering_risk |-> calculate_ip_clustering_risk(user_id)]
             final_score == WeightedSum(components)
         IN  [score |-> final_score, components |-> components,
              tier |-> get_trust_tier(final_score)]

(***************************************************************************)
(* Trust score: the store's history and the scoring call                   *)
(***************************************************************************)
TrustInit ==
    /\ masteryRecords = [s \in MasteryScores |-> 0]
    /\ factCheckLog = <<>>
    /\ answers = <<>>
    /\ accountAgeDays = 0
    /\ interactionRows = 0
    /\ userVotes = [a \in AnswerIds |-> 0]
    /\ userAbuseFlags = <<>>
    /\ trustResult = NoTrustResult

TrustIdle == TrustInit

\* a mastery record of the user is written
RecordMastery(s) ==
    /\ HistorySize < MaxHistory
    /\ masteryRecords' = [masteryRecords EXCEPT ![s] = @ + 1]
    /\ trustResult' = NoTrustResult
    /\ UNCHANGED otherThanTrust
    /\ UNCHANGED <<factCheckLog, answers, accountAgeDays, interactionRows,
                   userVotes, userAbuseFlags>>

\* a fact-check verdict on the user's claim is logged
LogFactCheck(v) ==
    /\ HistorySize < MaxHistory
    /\ factCheckLog' = <<v>> \o factCheckLog
    /\ trustResult' = NoTrustResult
    /\ UNCHANGED otherThanTrust
    /\ UNCHANGED <<masteryRecords, answers, accountAgeDays, interactionRows,
                   userVotes, userAbuseFlags>>

\* the user posts an answer
PostAnswer ==
    /\ HistorySize < MaxHistory
    /\ answers' = Append(answers, [upvotes |-> 0, downvotes |-> 0])
    /\ trustResult' = NoTrustResult
    /\ UNCHANGED otherThanTrust
    /\ UNCHANGED <<masteryRecords, factCheckLog, accountAgeDays, interactionRows,
                   userVotes, userAbuseFlags>>

\* somebody votes on the user's newest answer
ReceiveUpvote ==
    /\ HistorySize < MaxHistory
    /\ answers # <<>>
    /\ answers' = [answers EXCEPT ![Len(answers)].upvotes = @ + 1]
    /\ trustResult' = NoTrustResult
    /\ UNCHANGED otherThanTrust
    /\ UNCHANGED <<masteryRecords, factCheckLog, accountAgeDays, interactionRows,
                   userVotes, userAbuseFlags>>

ReceiveDownvote ==
    /\ HistorySize < MaxHistory
    /\ answers # <<>>
    /\ answers' = [answers EXCEPT ![Len(answers)].downvotes = @ + 1]
    /\ trustResult' = NoTrustResult
    /\ UNCHANGED otherThanTrust
    /\ UNCHANGED <<masteryRecords, factCheckLog, accountAgeDays, interactionRows,
                   userVotes, userAbuseFlags>>

\* time passes
AgeAccount ==
    /\ \E d \in AgeSamples : d > accountAgeDays /\ accountAgeDays' = d
    /\ trustResult' = NoTrustResult
    /\ UNCHANGED otherThanTrust
    /\ UNCHANGED <<masteryRecords, factCheckLog, answers, interactionRows,
                   userVotes, userAbuseFlags>>

\* the user interacts with further users
Interact ==
    /\ \E k \in PartnerSamples : k > interactionRows /\ interactionRows' = k
    /\ trustResult' = NoTrustResult
    /\ UNCHANGED otherThanTrust
    /\ UNCHANGED <<masteryRecords, factCheckLog, answers, accountAgeDays,
                   userVotes, userAbuseFlags>>

\* the user votes on an answer
CastVote(a) ==
    /\ HistorySize < MaxHistory
    /\ userVotes' = [userVotes EXCEPT ![a] = @ + 1]
    /\ trustResult' = NoTrustResult
    /\ UNCHANGED otherThanTrust
    /\ UNCHANGED <<masteryRecords, factCheckLog, answers, accountAgeDays,
                   interactionRows, userAbuseFlags>>

\* a detector flags the user
RaiseAbuseFlag ==
    /\ HistorySize < MaxHistory
    /\ userAbuseFlags' = Append(userAbuseFlags, [resolved |-> FALSE])
    /\ trustResult' = NoTrustResult
    /\ UNCHANGED otherThanTrust
    /\ UNCHANGED <<masteryRecords, factCheckLog, answers, accountAgeDays,
                   interactionRows, userVotes>>

\* moderation resolves the user's oldest open flag
ResolveAbuseFlag ==
    /\ \E i \in 1..Len(userAbuseFlags) :
          /\ ~userAbuseFlags[i].resolved
          /\ \A j \in 1..(i - 1) : userAbuseFlags[j].resolved
          /\ userAbuseFlags' = [userAbuseFlags EXCEPT ![i].resolved = TRUE]
    /\ trustResult' = NoTrustResult
    /\ UNCHANGED otherThanTrust
    /\ UNCHANGED <<masteryRecords, factCheckLog, answers, accountAgeDays,
                   interactionRows, userVotes>>

CalculateTrustScore(user_id) ==
    /\ trustResult' = [user_id |-> user_id] @@ calculate_trust_score(user_id)
    /\ UNCHANGED otherThanTrust
    /\ UNCHANGED <<masteryRecords, factCheckLog, answers, accountAgeDays,
                   interactionRows, userVotes, userAbuseFlags>>

TierIdle ==
    /\ tierScoreA = 0 /\ tierScoreB = 0 /\ tierOutA = None /\ tierOutB = None

TrustNext ==
    \/ \E s \in MasteryScores : RecordMastery(s)
    \/ \E v \in Verdicts : LogFactCheck(v)
    \/ PostAnswer
    \/ ReceiveUpvote
    \/ ReceiveDownvote
    \/ AgeAccount
    \/ Interact
    \/ \E a \in AnswerIds : CastVote(a)
    \/ RaiseAbuseFlag
    \/ ResolveAbuseFlag
    \/ \E u \in UserIds : CalculateTrustScore(u)

InitTrust == TrustInit /\ TierIdle /\ VoteIdle /\ SimIdle /\ IPIdle /\ FlagIdle /\ StoreUp /\ DfsIdle /\ ExtIdle

SpecTrust == InitTrust /\ [][TrustNext]_vars

(***************************************************************************)
(* get_trust_tier over a grid of scores                                    *)
(***************************************************************************)
ScoreGrid == 100    \* the explored scores are k / ScoreGrid, k in 0..ScoreGrid

TierInit ==
    /\ tierScoreA \in 0..ScoreGrid
    /\ tierScoreB \in 0..ScoreGrid
    /\ tierOutA = None
    /\ tierOutB = None

GetTrustTier ==
    /\ tierOutA = None
    /\ tierOutA' = get_trust_tier(Rat(tierScoreA, ScoreGrid))
    /\ tierOutB' = get_trust_tier(Rat(tierScoreB, ScoreGrid))
    /\ UNCHANGED <<tierScoreA, tierScoreB>>
    /\ UNCHANGED otherThanTier

TierNext == GetTrustTier

InitTier == TierInit /\ TrustIdle /\ VoteIdle /\ SimIdle /\ IPIdle /\ FlagIdle /\ StoreUp /\ DfsIdle /\ ExtIdle

SpecTier == InitTier /\ [][TierNext]_vars

(***************************************************************************)
(* Claims about the trust score                                            *)
(***************************************************************************)
ZeroHistory ==
    /\ HistorySize = 0
    /\ accountAgeDays = 0
    /\ interactionRows = 0

\* C1: every TrustResult, for an existing user with any history and for an
\* unknown user, has its score and each of its nine components in [0,1], and
\* the weight table is {0.20,0.20,0.15,0.10,0.10,0.10,0.05,0.05,0.05}, which
\* sums to exactly 1.
C1_ScoreAndComponentsInUnit ==
    /\ COMPONENT_WEIGHTS.mastery_reliability = 20
    /\ COMPONENT_WEIGHTS.nli_track_record = 20
    /\ COMPONENT_WEIGHTS.community_validation = 15
    /\ COMPONENT_WEIGHTS.account_age_trust = 10
    /\ COMPONENT_WEIGHTS.interaction_entropy = 10
    /\ COMPONENT_WEIGHTS.vote_pattern_score = 10
    /\ COMPONENT_WEIGHTS.similarity_flags = 5
    /\ COMPONENT_WEIGHTS.abuse_flags = 5
    /\ COMPONENT_WEIGHTS.ip_clustering_risk = 5
    /\ SumFun(COMPONENT_WEIGHTS, ComponentNames) = 100
    /\ HasTrustResult =>
          /\ InUnit(trustResult.score)
          /\ DOMAIN trustResult.components = ComponentNames
          /\ Cardinality(ComponentNames) = 9
          /\ \A k \in ComponentNames : InUnit(trustResult.components[k])

\* C1 witness: an existing user with five or more votes spread unevenly, six
\* open flags' worth of penalty or not, has been scored
C1_Witness ==
    /\ HasTrustResult
    /\ trustResult.user_id = "u1"
    /\ SumFun(userVotes, AnswerIds) >= 5
    /\ trustResult.components.vote_pattern_score # RInt(1)

\* the per-component defaults the design documents for a user without history
DocumentedDefaults ==
    [mastery_reliability |-> Rat(1, 2), nli_track_record |-> Rat(1, 2),
     community_validation |-> Rat(1, 2), account_age_trust |-> RInt(0),
     interaction_entropy |-> Rat(2, 10), vote_pattern_score |-> RInt(1),
     similarity_flags |-> RInt(1), abuse_flags |-> RInt(1),
     ip_clustering_risk |-> RInt(1)]

\* C3: for a brand-new user without history, and for a user id that is not
\* found, the returned score is the weighted sum of the documented defaults
\* under the weight table and the returned tier is Novice.
C3_NewUserIsNovice ==
    (HasTrustResult /\ (ZeroHistory \/ trustResult.user_id = "ghost")) =>
        /\ trustResult.score = WeightedSum(DocumentedDefaults)
        /\ trustResult.tier = "Novice"

(***************************************************************************)
(* Claims about the tier mapping                                           *)
(***************************************************************************)
TierRank(t) ==
    CASE t = "Restricted" -> 0
      [] t = "Novice" -> 1
      [] t = "Contributor" -> 2
      [] t = "Expert" -> 3
      [] t = "Trusted" -> 4

\* the band a score belongs to, as the claim states it, in hundredths
BandOf(k, grid) ==
    IF 100 * k < 30 * grid THEN "Restricted"
    ELSE IF 100 * k < 50 * grid THEN "Novice"
    ELSE IF 100 * k < 70 * grid THEN "Contributor"
    ELSE IF 100 * k < 85 * grid THEN "Expert"
    ELSE "Trusted"

\* C2: get_trust_tier maps score < 0.30 to Restricted, [0.30, 0.50) to Novice,
\* [0.50, 0.70) to Contributor, [0.70, 0.85) to Expert and >= 0.85 to Trusted,
\* and the tier never decreases when the score increases.
C2_TierBandsExactAndMonotonic ==
    tierOutA # None =>
        /\ tierOutA = BandOf(tierScoreA, ScoreGrid)
        /\ tierOutB = BandOf(tierScoreB, ScoreGrid)
        /\ tierScoreA <= tierScoreB => TierRank(tierOutA) <= TierRank(tierOutB)

\* C2 witness: the scores 0.29 and 0.30 have been mapped, to Restricted and Novice
C2_Witness ==
    /\ tierOutA = "Restricted" /\ 100 * tierScoreA = 29 * ScoreGrid
    /\ tierOutB = "Novice" /\ 100 * tierScoreB = 30 * ScoreGrid

(***************************************************************************)
(* vote_analyzer.py: the vote table                                        *)
(***************************************************************************)
Range(seq) == {seq[i] : i \in DOMAIN seq}

Users == {"A", "B", "C", "D", "E"}
Subjects == {"A", "C"}      \* users analyze_user_voting is called for

\* every user owns one answer; a vote for the user is a vote on that answer
\* the further users of the long vote rings, in ring order after "A"
ChainUsers == <<"F", "G", "H", "I", "J", "K", "L", "M", "N", "O", "P">>

AllUsers == Users \cup Range(ChainUsers)

ContentOf == [u \in AllUsers |-> "ans" \o u]
Contents == {ContentOf["A"]}    \* content analyze_content_voting is called for

SecondsPerDay == 86400
OldVoteDays == 31           \* age of the explored vote that is out of window

\* a row of db.vote_graph; createdAt is kept as the row's age in seconds at
\* the time of the analysis
VoteRow(v, t, type, age) ==
    [voterId |-> v, targetUserId |-> t, voteType |-> type,
     contentId |-> ContentOf[t], contentType |-> "answer", age |-> age]

\* the vote rows the exploration casts
ExploredVotes ==
    {VoteRow("A", x, "UPVOTE", 0) : x \in {"B", "C", "D", "E"}}
    \cup {VoteRow(x, "A", "UPVOTE", 0) : x \in {"B", "C", "D", "E"}}
    \cup {VoteRow("B", "A", "UPVOTE", 100), VoteRow("C", "A", "UPVOTE", 250),
          VoteRow("D", "A", "UPVOTE", OldVoteDays * SecondsPerDay),
          VoteRow("E", "A", "DOWNVOTE", 0)}
    \cup {VoteRow("B", "C", "UPVOTE", 0), VoteRow("C", "D", "UPVOTE", 0),
          VoteRow("A", "A", "UPVOTE", 0)}

\* Thresholds
MUTUAL_VOTE_THRESHOLD == Rat(8, 10)
VOTE_RING_MIN_SIZE == 3
COORDINATED_TIME_WINDOW == 60
MAX_CYCLE_PATH == 10            \* "if len(path) > 10"
DEFAULT_LOOKBACK_DAYS == 30     \* lookback_days of the analyze_user_voting call
DEFAULT_LOOKBACK_MINUTES == 5   \* lookback_minutes of detect_coordinated_voting

\* "createdAt": {"gte": since}, since = utcnow() - timedelta(...)
CreatedSince(row, seconds) == row.age <= seconds


(***************************************************************************)
(* vote_analyzer.py: the detectors.  A detector's Optional[VotePattern] is *)
(* the set of the patterns it can return: empty for None.                  *)
(***************************************************************************)
\* a variant that asks for two mutual users only
detect_mutual_voting_min2(user_id, lookback_days) ==
    LET since == lookback_days * SecondsPerDay
        votes_by == {v \in voteGraph : v.voterId = user_id /\ v.voteType = "UPVOTE"
                                       /\ CreatedSince(v, since)}
        votes_for == {v \in voteGraph : v.targetUserId = user_id /\ v.voteType = "UPVOTE"
                                        /\ CreatedSince(v, since)}
        voted_for == {v.targetUserId : v \in votes_by}
        voted_by == {v.voterId : v \in votes_for}
        mutual == voted_for \cap voted_by
    IN  IF voted_for = {} THEN {}
        ELSE LET mutual_ratio == Rat(Cardinality(mutual), Cardinality(voted_for))
             IN  IF RLe(MUTUAL_VOTE_THRESHOLD, mutual_ratio) /\ Cardinality(mutual) >= 2
                 THEN {[pattern_type |-> "MUTUAL_VOTING",
                        users_involved |-> {user_id} \cup mutual,
                        confidence |-> mutual_ratio,
                        evidence |-> [mutual_count |-> Cardinality(mutual),
                                      total_voted_for |-> Cardinality(voted_for),
                                      mutual_ratio |-> mutual_ratio,
                                      mutual_users |-> mutual]]}
                 ELSE {}

detect_mutual_voting(user_id, lookback_days) ==
    LET since == lookback_days * SecondsPerDay
        votes_by == {v \in voteGraph : v.voterId = user_id /\ v.voteType = "UPVOTE"
                                       /\ CreatedSince(v, since)}
        votes_for == {v \in voteGraph : v.targetUserId = user_id /\ v.voteType = "UPVOTE"
                                        /\ CreatedSince(v, since)}
        voted_for == {v.targetUserId : v \in votes_by}
        voted_by == {v.voterId : v \in votes_for}
        mutual == voted_for \cap voted_by
    IN  IF voted_for = {} THEN {}
        ELSE LET mutual_ratio == Rat(Cardinality(mutual), Cardinality(voted_for))
             IN  IF RLe(MUTUAL_VOTE_THRESHOLD, mutual_ratio) /\ Cardinality(mutual) >= 3
                 THEN {[pattern_type |-> "MUTUAL_VOTING",
                        users_involved |-> {user_id} \cup mutual,
                        confidence |-> mutual_ratio,
                        evidence |-> [mutual_count |-> Cardinality(mutual),
                                      total_voted_for |-> Cardinality(voted_for),
                                      mutual_ratio |-> mutual_ratio,
                                      mutual_users |-> mutual]]}
                 ELSE {}

\* the adjacency map voter -> targets of the in-window upvotes
VotingGraph(lookback_days) ==
    [u \in AllUsers |->
        {v.targetUserId : v \in {w \in voteGraph :
            /\ w.voterId = u
            /\ w.voteType = "UPVOTE"
            /\ CreatedSince(w, lookback_days * SecondsPerDay)}}]

\* The cycles the depth-first search can return.  The search takes the first
\* neighbour, in the iteration order of a Python set, whose subtree holds a
\* cycle; that order is not fixed by the program, so each such neighbour can
\* be the first.  The empty set stands for None.
RECURSIVE find_cycle(_, _, _, _, _)
find_cycle(graph, start, current, path, visited) ==
    IF current \in visited
    THEN IF current = start /\ Len(path) >= VOTE_RING_MIN_SIZE
         THEN {path \o <<current>>}
         ELSE {}
    ELSE IF Len(path) > MAX_CYCLE_PATH THEN {}
    ELSE UNION {find_cycle(graph, start, neighbor, path \o <<current>>,
                           visited \cup {current}) : neighbor \in graph[current]}

detect_vote_ring(user_id, lookback_days) ==
    {[pattern_type |-> "VOTE_RING",
      users_involved |-> cycle,
      confidence |-> Rat(9, 10),
      evidence |-> [cycle |-> cycle, ring_size |-> Cardinality(Range(cycle)) - 1]] :
        cycle \in find_cycle(VotingGraph(lookback_days), user_id, user_id, <<>>, {})}

\* the createdAt values of the rows, ascending (ages, descending)
RECURSIVE TimestampsAsc(_)
TimestampsAsc(rows) ==
    IF rows = {} THEN <<>>
    ELSE LET first == CHOOSE r \in rows : \A q \in rows : q.age <= r.age
         IN  <<-first.age>> \o TimestampsAsc(rows \ {first})

detect_coordinated_voting(content_id, content_type, lookback_minutes) ==
    LET votes == {v \in voteGraph :
                    /\ v.contentId = content_id
                    /\ v.contentType = content_type
                    /\ v.voteType = "UPVOTE"
                    /\ CreatedSince(v, lookback_minutes * 60)}
    IN  IF Cardinality(votes) < 3 THEN {}
        ELSE LET timestamps == TimestampsAsc(votes)
                 time_diffs == [i \in 1..(Len(timestamps) - 1) |->
                                    timestamps[i + 1] - timestamps[i]]
                 avg_diff == Rat(SumSeq(time_diffs), Len(time_diffs))
             IN  IF RLt(avg_diff, RInt(COORDINATED_TIME_WINDOW)) /\ Cardinality(votes) >= 3
                 THEN {[pattern_type |-> "COORDINATED",
                        users_involved |-> {v.voterId : v \in votes},
                        confidence |-> RMin(Rat(95, 100),
                                            RSub(RInt(1), RDiv(avg_diff,
                                                 RInt(COORDINATED_TIME_WINDOW)))),
                        evidence |-> [vote_count |-> Cardinality(votes),
                                      avg_time_diff |-> avg_diff,
                                      voters |-> {v.voterId : v \in votes}]]}
                 ELSE {}

\* a variant that weighs every pattern by its confidence
RECURSIVE user_risk_sum_weighted(_)
user_risk_sum_weighted(patterns) ==
    IF patterns = <<>> THEN RInt(0)
    ELSE LET pattern == Head(patterns)
             add == CASE pattern.pattern_type = "MUTUAL_VOTING" ->
                            RMul(pattern.confidence, Rat(3, 10))
                      [] pattern.pattern_type = "VOTE_RING" ->
                            RMul(pattern.confidence, Rat(7, 10))
                      [] pattern.pattern_type = "COORDINATED" ->
                            RMul(pattern.confidence, Rat(5, 10))
                      [] OTHER -> RInt(0)
         IN  RAdd(add, user_risk_sum_weighted(Tail(patterns)))

\* the loop "for pattern in patterns: risk_score += ..."
RECURSIVE user_risk_sum(_)
user_risk_sum(patterns) ==
    IF patterns = <<>> THEN RInt(0)
    ELSE LET pattern == Head(patterns)
             add == CASE pattern.pattern_type = "MUTUAL_VOTING" ->
                            RMul(pattern.confidence, Rat(3, 10))
                      [] pattern.pattern_type = "VOTE_RING" -> Rat(7, 10)
                      [] pattern.pattern_type = "COORDINATED" -> Rat(5, 10)
                      [] OTHER -> RInt(0)
         IN  RAdd(add, user_risk_sum(Tail(patterns)))

\* variant: the bands are open at their lower ends
RiskRecommendation_open_bands(risk_score) ==
    IF RLt(Rat(7, 10), risk_score) THEN "INVESTIGATE"
    ELSE IF RLt(Rat(4, 10), risk_score) THEN "WARN"
    ELSE "ALLOW"

RiskRecommendation(risk_score) ==
    IF RLe(Rat(7, 10), risk_score) THEN "INVESTIGATE"
    ELSE IF RLe(Rat(4, 10), risk_score) THEN "WARN"
    ELSE "ALLOW"

SeqOfAtMostOne(S) == IF S = {} THEN <<>> ELSE <<CHOOSE x \in S : TRUE>>

\* the reports analyze_user_voting can return: one for each ring the search
\* can find first
analyze_user_voting(user_id, lookback_days) ==
    LET mutual == detect_mutual_voting(user_id, lookback_days)
        rings == detect_vote_ring(user_id, lookback_days)
        Report(ring) ==
            LET patterns == SeqOfAtMostOne(mutual) \o SeqOfAtMostOne(ring)
                risk_score == RMin(RInt(1), user_risk_sum(patterns))
            IN  [subject |-> user_id,
                 kind |-> "user",
                 is_suspicious |-> Len(patterns) > 0,
                 patterns |-> patterns,
                 risk_score |-> risk_score,
                 recommendation |-> RiskRecommendation(risk_score)]
    IN  IF rings = {} THEN {Report({})} ELSE {Report({ring}) : ring \in rings}

analyze_content_voting(content_id, content_type) ==
    LET coordinated == detect_coordinated_voting(content_id, content_type,
                                                 DEFAULT_LOOKBACK_MINUTES)
        patterns == SeqOfAtMostOne(coordinated)
    IN  [subject |-> content_id,
         kind |-> "content",
         is_suspicious |-> Len(patterns) > 0,
         patterns |-> patterns,
         risk_score |-> IF coordinated # {} THEN Rat(5, 10) ELSE RInt(0),
         recommendation |-> IF Len(patterns) > 0 THEN "WARN" ELSE "ALLOW"]

(***************************************************************************)
(* Votes are cast; the analyzers are called                                *)
(***************************************************************************)
VoteInit == VoteIdle

\* a user votes on another user's answer, once
CastVoteRow(row) ==
    /\ \A v \in voteGraph : ~(v.voterId = row.voterId /\ v.targetUserId = row.targetUserId)
    /\ voteGraph' = voteGraph \cup {row}
    /\ voteReport' = NoVoteReport
    /\ UNCHANGED otherThanVote

AnalyzeUserVoting(user_id) ==
    /\ \E report \in analyze_user_voting(user_id, DEFAULT_LOOKBACK_DAYS) :
          voteReport' = report
    /\ UNCHANGED voteGraph
    /\ UNCHANGED otherThanVote

AnalyzeContentVoting(content_id) ==
    /\ voteReport' = analyze_content_voting(content_id, "answer")
    /\ UNCHANGED voteGraph
    /\ UNCHANGED otherThanVote

VoteNext ==
    \/ \E row \in ExploredVotes : CastVoteRow(row)
    \/ \E u \in Subjects : AnalyzeUserVoting(u)
    \/ \E c \in Contents : AnalyzeContentVoting(c)

InitVote == VoteInit /\ TrustIdle /\ TierIdle /\ SimIdle /\ IPIdle /\ FlagIdle /\ StoreUp /\ DfsIdle /\ ExtIdle

SpecVote == InitVote /\ [][VoteNext]_vars

(***************************************************************************)
(* Claims about the vote analyzer                                          *)
(***************************************************************************)
InWindowUpvotes ==
    {v \in voteGraph : v.voteType = "UPVOTE"
                       /\ v.age <= DEFAULT_LOOKBACK_DAYS * SecondsPerDay}
UpvoteEdges == {<<v.voterId, v.targetUserId>> : v \in InWindowUpvotes}
VotedFor(u) == {e[2] : e \in {d \in UpvoteEdges : d[1] = u}}
VotedBy(u) == {e[1] : e \in {d \in UpvoteEdges : d[2] = u}}
Mutual(u) == VotedFor(u) \cap VotedBy(u)

PatternsOfType(report, type) ==
    {i \in 1..Len(report.patterns) : report.patterns[i].pattern_type = type}

\* C4: when the in-window upvotes are exactly the 3-cycle A->B->C->A, the
\* report of analyze_user_voting(A) holds a VOTE_RING pattern whose evidence
\* ring size is 3 and whose confidence is 0.9.
C4_ThreeCycleReportsRingOfThree ==
    (/\ HasVoteReport
     /\ voteReport.kind = "user"
     /\ voteReport.subject = "A"
     /\ UpvoteEdges = {<<"A", "B">>, <<"B", "C">>, <<"C", "A">>})
    => \E i \in PatternsOfType(voteReport, "VOTE_RING") :
          /\ voteReport.patterns[i].evidence.ring_size = 3
          /\ voteReport.patterns[i].confidence = Rat(9, 10)

\* C5: the report holds a MUTUAL_VOTING pattern if and only if the subject
\* upvoted somebody in the window, |votedFor \cap votedBy| / |votedFor| >= 0.8
\* and |votedFor \cap votedBy| >= 3; the pattern's confidence is that ratio.
\* In particular a ratio of 1.0 with two mutual users gives no pattern.
C5_MutualVotingIff ==
    (HasVoteReport /\ voteReport.kind = "user") =>
        LET u == voteReport.subject
            fired == PatternsOfType(voteReport, "MUTUAL_VOTING")
        IN  /\ fired # {} <=>
                  /\ VotedFor(u) # {}
                  /\ 10 * Cardinality(Mutual(u)) >= 8 * Cardinality(VotedFor(u))
                  /\ Cardinality(Mutual(u)) >= 3
            /\ \A i \in fired :
                  voteReport.patterns[i].confidence =
                      Rat(Cardinality(Mutual(u)), Cardinality(VotedFor(u)))

\* C5 witness: the subject upvoted four users, all four upvoted back, and the
\* pattern is reported
C5_Witness ==
    /\ HasVoteReport
    /\ voteReport.kind = "user"
    /\ Cardinality(VotedFor(voteReport.subject)) = 4
    /\ Cardinality(Mutual(voteReport.subject)) = 4
    /\ PatternsOfType(voteReport, "MUTUAL_VOTING") # {}

\* the documented weight of a pattern type, in tenths
PatternWeight(type) ==
    CASE type = "MUTUAL_VOTING" -> 3
      [] type = "VOTE_RING" -> 7
      [] type = "COORDINATED" -> 5

RECURSIVE WeightTimesConfidence(_)
WeightTimesConfidence(patterns) ==
    IF patterns = <<>> THEN RInt(0)
    ELSE RAdd(RMul(Rat(PatternWeight(Head(patterns).pattern_type), 10),
                   Head(patterns).confidence),
              WeightTimesConfidence(Tail(patterns)))

\* C10 as stated: the risk score of every report is
\* min(1, sum over its patterns of pattern_weight * confidence).
C10_RiskIsWeightedConfidence ==
    HasVoteReport =>
        voteReport.risk_score = RMin(RInt(1), WeightTimesConfidence(voteReport.patterns))

\* a mutual pattern counts 0.3 * confidence, a ring 0.7, a burst 0.5
RECURSIVE CodedContribution(_)
CodedContribution(patterns) ==
    IF patterns = <<>> THEN RInt(0)
    ELSE RAdd(IF Head(patterns).pattern_type = "MUTUAL_VOTING"
              THEN RMul(Rat(3, 10), Head(patterns).confidence)
              ELSE Rat(PatternWeight(Head(patterns).pattern_type), 10),
              CodedContribution(Tail(patterns)))

\* C10 as amended: the risk score of every report is min(1, sum over its
\* patterns of: 0.3 * confidence for a mutual-voting pattern, the full 0.7 for
\* a vote ring and the full 0.5 for a coordinated burst, whatever the
\* confidence of the ring or the burst).
C10_RiskIsMutualWeightedRingAndBurstFlat ==
    HasVoteReport =>
        voteReport.risk_score = RMin(RInt(1), CodedContribution(voteReport.patterns))

\* C10 witness: a report with a ring only, scored 0.7
C10_Witness ==
    /\ HasVoteReport
    /\ voteReport.kind = "user"
    /\ PatternsOfType(voteReport, "VOTE_RING") # {}
    /\ PatternsOfType(voteReport, "MUTUAL_VOTING") = {}
    /\ voteReport.risk_score = Rat(7, 10)

(***************************************************************************)
(* similarity_detector.py: texts, hashes and embeddings                    *)
(*                                                                         *)
(* A text is a sequence of one-character strings.  The SHA-256 digest of   *)
(* the normalized text is represented by the normalized text itself (the   *)
(* digest is taken as injective).  An embedding is the sequence of its     *)
(* leading non-zero entries; the remaining entries of the 384 are zero.    *)
(* A similarity is carried as the square of the cosine.                    *)
(***************************************************************************)
Texts ==
    {<<"A", " ", " ", "b">>,            \* "A  b"
     <<"a", " ", "b">>,                 \* "a b"
     <<"a", "a", "a", "a">>,            \* "aaaa"
     <<"a", "a", "a", "a", "b">>}       \* "aaaab"

\* str.lower() on the characters of the explored texts
LowerChar(c) ==
    CASE c = "A" -> "a"
      [] c = "B" -> "b"
      [] OTHER -> c

IsWhitespace(c) == c = " "

\* str.split(): the maximal runs of non-whitespace characters
RECURSIVE SplitWords(_, _, _)
SplitWords(text, word, words) ==
    IF text = <<>> THEN (IF word = <<>> THEN words ELSE Append(words, word))
    ELSE IF IsWhitespace(Head(text))
         THEN SplitWords(Tail(text), <<>>, IF word = <<>> THEN words ELSE Append(words, word))
         ELSE SplitWords(Tail(text), Append(word, Head(text)), words)

\* " ".join(words)
RECURSIVE JoinWords(_)
JoinWords(words) ==
    IF words = <<>> THEN <<>>
    ELSE IF Len(words) = 1 THEN words[1]
    ELSE words[1] \o <<" ">> \o JoinWords(Tail(words))

compute_content_hash(text) ==
    LET lowered == [i \in 1..Len(text) |-> LowerChar(text[i])]
    IN  JoinWords(SplitWords(lowered, <<>>, <<>>))

EMBEDDING_DIMS == 384

\* the counts of Counter.most_common(): descending
RECURSIVE MostCommonCounts(_, _)
MostCommonCounts(count, keys) ==
    IF keys = {} THEN <<>>
    ELSE LET top == CHOOSE k \in keys : \A j \in keys : count[j] <= count[k]
         IN  <<count[top]>> \o MostCommonCounts(count, keys \ {top})

compute_embedding(text) ==
    LET trigrams == [i \in 1..(Len(text) - 2) |-> SubSeq(text, i, i + 2)]
        distinct == {trigrams[i] : i \in 1..Len(trigrams)}
        trigram_counts == [g \in distinct |->
                              Cardinality({i \in 1..Len(trigrams) : trigrams[i] = g})]
        common == MostCommonCounts(trigram_counts, distinct)
        kept == IF Len(common) < EMBEDDING_DIMS THEN Len(common) ELSE EMBEDDING_DIMS
    IN  [i \in 1..kept |-> Rat(common[i], Len(trigrams))]

RECURSIVE RSumSeq(_)
RSumSeq(s) == IF s = <<>> THEN RInt(0) ELSE RAdd(Head(s), RSumSeq(Tail(s)))

\* the square of dot(a, b) / (|a| * |b|), and 0 when a magnitude is 0
cosine_similarity(a, b) ==
    LET both == IF Len(a) < Len(b) THEN Len(a) ELSE Len(b)
        dot_product == RSumSeq([i \in 1..both |-> RMul(a[i], b[i])])
        magnitude_a_sq == RSumSeq([i \in 1..Len(a) |-> RMul(a[i], a[i])])
        magnitude_b_sq == RSumSeq([i \in 1..Len(b) |-> RMul(b[i], b[i])])
    IN  IF magnitude_a_sq = RInt(0) \/ magnitude_b_sq = RInt(0) THEN RInt(0)
        ELSE RDiv(RMul(dot_product, dot_product), RMul(magnitude_a_sq, magnitude_b_sq))

\* compute_content_hash, compute_embedding and cosine_similarity over the
\* explored texts, tabulated
HashOfText == [t \in Texts |-> compute_content_hash(t)]
EmbeddingOfText == [t \in Texts |-> compute_embedding(t)]
Embeddings == {EmbeddingOfText[t] : t \in Texts}
SimilarityOf == [a \in Embeddings, b \in Embeddings |-> cosine_similarity(a, b)]

\* Thresholds, squared: 0.98, 0.90 and 0.75
EXACT_MATCH_THRESHOLD == Rat(9604, 10000)
HIGH_SIMILARITY_THRESHOLD == Rat(81, 100)
MODERATE_SIMILARITY_THRESHOLD == Rat(5625, 10000)

SEARCH_TAKE == 1000         \* "take": 1000
MATCH_LIMIT == 10           \* limit
SIM_LOOKBACK_DAYS == 90     \* lookback_days

(***************************************************************************)
(* similarity_detector.py: the fingerprint table and the check             *)
(***************************************************************************)
\* db.content_embedding.upsert on (contentId, contentType)
store_content_embedding(content_id, content_type, user_id, embedding, content_hash) ==
    IF \E row \in contentEmbeddings :
          row.contentId = content_id /\ row.contentType = content_type
    THEN {IF row.contentId = content_id /\ row.contentType = content_type
          THEN [row EXCEPT !.embedding = embedding, !.contentHash = content_hash]
          ELSE row : row \in contentEmbeddings}
    ELSE contentEmbeddings \cup
            {[contentId |-> content_id, contentType |-> content_type,
              userId |-> user_id, embedding |-> embedding,
              contentHash |-> content_hash, createdAt |-> simNow]}

\* the row sets find_many can return: all rows of the type created since the
\* lookback, or any SEARCH_TAKE of them when there are more
Candidates(content_type, lookback_days) ==
    LET found == {row \in contentEmbeddings :
                     /\ row.contentType = content_type
                     /\ row.createdAt >= simNow - lookback_days}
    IN  IF Cardinality(found) <= SEARCH_TAKE THEN {found}
        ELSE {rows \in SUBSET found : Cardinality(rows) = SEARCH_TAKE}

MatchOf(candidate, similarity) ==
    [content_id |-> candidate.contentId, content_type |-> candidate.contentType,
     user_id |-> candidate.userId, similarity |-> similarity,
     created_at |-> candidate.createdAt]

\* matches[:limit] after the descending sort, as a set; ties at the cut can
\* fall either way
TopMatches(matches, limit) ==
    IF Cardinality(matches) <= limit THEN {matches}
    ELSE {top \in SUBSET matches :
             /\ Cardinality(top) = limit
             /\ \A m \in top : \A n \in matches \ top : RLe(n.similarity, m.similarity)}

\* variant: no hash shortcut, every candidate is compared by cosine only
find_similar_content_cosine_only(embedding, content_hash, content_type, limit, lookback_days) ==
    UNION {TopMatches(
               {m \in {MatchOf(c, SimilarityOf[embedding, c.embedding]) : c \in candidates} :
                   RLe(MODERATE_SIMILARITY_THRESHOLD, m.similarity)},
               limit) : candidates \in Candidates(content_type, lookback_days)}

\* the match lists find_similar_content can return
find_similar_content(embedding, content_hash, content_type, limit, lookback_days) ==
    UNION {TopMatches(
               {m \in {MatchOf(c, IF c.contentHash = content_hash THEN RInt(1)
                                  ELSE SimilarityOf[embedding, c.embedding]) :
                           c \in candidates} :
                   RLe(MODERATE_SIMILARITY_THRESHOLD, m.similarity)},
               limit) : candidates \in Candidates(content_type, lookback_days)}

RECURSIVE RMaxOf(_)
RMaxOf(S) ==
    LET x == CHOOSE x \in S : TRUE
    IN  IF S = {x} THEN x ELSE RMax(x, RMaxOf(S \ {x}))

\* variant: an exact match blocks whoever owns it
ClassifyMatches_block_any_exact(user_id, matches) ==
    LET exact_matches == {m \in matches : RLe(EXACT_MATCH_THRESHOLD, m.similarity)}
        high_matches == {m \in matches : RLe(HIGH_SIMILARITY_THRESHOLD, m.similarity)}
    IN  IF matches = {}
        THEN [is_duplicate |-> FALSE, confidence |-> RInt(0), recommendation |-> "ALLOW"]
        ELSE IF exact_matches # {}
        THEN [is_duplicate |-> TRUE,
              confidence |-> RMaxOf({m.similarity : m \in exact_matches}),
              recommendation |-> "BLOCK"]
        ELSE IF high_matches # {}
        THEN [is_duplicate |-> TRUE,
              confidence |-> RMaxOf({m.similarity : m \in high_matches}),
              recommendation |-> "WARN"]
        ELSE [is_duplicate |-> FALSE,
              confidence |-> RMaxOf({m.similarity : m \in matches}),
              recommendation |-> "ALLOW"]

\* the analysis of the matches
ClassifyMatches(user_id, matches) ==
    LET exact_matches == {m \in matches : RLe(EXACT_MATCH_THRESHOLD, m.similarity)}
        high_matches == {m \in matches : RLe(HIGH_SIMILARITY_THRESHOLD, m.similarity)}
    IN  IF matches = {}
        THEN [is_duplicate |-> FALSE, confidence |-> RInt(0), recommendation |-> "ALLOW"]
        ELSE IF exact_matches # {}
        THEN [is_duplicate |-> TRUE,
              confidence |-> RMaxOf({m.similarity : m \in exact_matches}),
              recommendation |-> IF \E m \in exact_matches : m.user_id # user_id
                                 THEN "BLOCK" ELSE "WARN"]
        ELSE IF high_matches # {}
        THEN [is_duplicate |-> TRUE,
              confidence |-> RMaxOf({m.similarity : m \in high_matches}),
              recommendation |-> "WARN"]
        ELSE [is_duplicate |-> FALSE,
              confidence |-> RMaxOf({m.similarity : m \in matches}),
              recommendation |-> "ALLOW"]

\* the content items check_similarity is called for, with their authors
SimContents ==
    {[id |-> "c1", type |-> "answer", owner |-> "X"],
     [id |-> "c2", type |-> "answer", owner |-> "Y"],
     [id |-> "c3", type |-> "answer", owner |-> "X"],
     [id |-> "d1", type |-> "doubt", owner |-> "Y"]}

\* the clock advances by one day more than the lookback, at most MaxSteps times
StepDays == SIM_LOOKBACK_DAYS + 1
MaxSteps == 1

\* the texts a content item is submitted with
SubmittedTexts(content) ==
    IF content.type = "doubt" THEN {<<"a", " ", "b">>} ELSE Texts

SimInit == SimIdle

\* a variant that stores whenever the caller asks for it
StoresFingerprint_whenever_asked(auto_store, verdict) == auto_store

\* "if auto_store and not is_duplicate"
StoresFingerprint(auto_store, verdict) == auto_store /\ ~verdict.is_duplicate

CheckSimilarity(content, text, auto_store) ==
    LET content_hash == HashOfText[text]
        embedding == EmbeddingOfText[text]
    IN  \E matches \in find_similar_content(embedding, content_hash, content.type,
                                            MATCH_LIMIT, SIM_LOOKBACK_DAYS) :
            LET verdict == ClassifyMatches(content.owner, matches)
            IN  /\ contentEmbeddings' =
                      IF StoresFingerprint(auto_store, verdict)
                      THEN store_content_embedding(content.id, content.type,
                                                   content.owner, embedding, content_hash)
                      ELSE contentEmbeddings
                /\ simReport' =
                      [content_id |-> content.id, content_type |-> content.type,
                       user_id |-> content.owner, text |-> text,
                       content_hash |-> content_hash, auto_store |-> auto_store,
                       is_duplicate |-> verdict.is_duplicate,
                       confidence |-> verdict.confidence,
                       matches |-> matches,
                       recommendation |-> verdict.recommendation]
                /\ UNCHANGED simNow
                /\ UNCHANGED otherThanSim

SimTick ==
    /\ simNow + StepDays <= MaxSteps * StepDays
    /\ simNow' = simNow + StepDays
    /\ simReport' = NoSimReport
    /\ UNCHANGED contentEmbeddings
    /\ UNCHANGED otherThanSim

SimNext ==
    \/ \E content \in SimContents, auto_store \in BOOLEAN :
          \E text \in SubmittedTexts(content) :
             CheckSimilarity(content, text, auto_store)
    \/ SimTick

InitSim == SimInit /\ TrustIdle /\ TierIdle /\ VoteIdle /\ IPIdle /\ FlagIdle /\ StoreUp /\ DfsIdle /\ ExtIdle

SpecSim == InitSim /\ [][SimNext]_vars

(***************************************************************************)
(* Claims about check_similarity                                           *)
(***************************************************************************)
\* the step is a check_similarity call: simReport' is what it returned and
\* contentEmbeddings is the table it searched
IsCheckStep == HasSimReport' /\ simNow' = simNow

\* the fingerprints of another content item, still inside the lookback window,
\* that carry the normalized text and the type of the checked content
StoredSameText ==
    {row \in contentEmbeddings :
        /\ row.contentHash = simReport'.content_hash
        /\ row.contentType = simReport'.content_type
        /\ row.contentId # simReport'.content_id
        /\ row.createdAt >= simNow - SIM_LOOKBACK_DAYS}

\* the in-window fingerprints of other owners that come out at 0.98 or more
\* against the checked text
OtherOwnersExact ==
    {row \in contentEmbeddings :
        /\ row.contentType = simReport'.content_type
        /\ row.createdAt >= simNow - SIM_LOOKBACK_DAYS
        /\ row.userId # simReport'.user_id
        /\ \/ row.contentHash = simReport'.content_hash
           \/ RLe(EXACT_MATCH_THRESHOLD,
                  cosine_similarity(compute_embedding(simReport'.text), row.embedding))}

BestSimilarity == RMaxOf({m.similarity : m \in simReport.matches})

\* C7: check_similarity classifies by the best match: no match is not a
\* duplicate, confidence 0, ALLOW; best in [0.75, 0.90) is not a duplicate,
\* confidence the best similarity, ALLOW; best in [0.90, 0.98) is a duplicate,
\* WARN; a match >= 0.98 is a duplicate, BLOCK if some such match has another
\* owner and WARN otherwise.
C7_ClassifiedByBestMatch ==
    HasSimReport =>
        IF simReport.matches = {}
        THEN /\ ~simReport.is_duplicate
             /\ simReport.confidence = RInt(0)
             /\ simReport.recommendation = "ALLOW"
        ELSE /\ RLe(MODERATE_SIMILARITY_THRESHOLD, BestSimilarity)
             /\ RLt(BestSimilarity, HIGH_SIMILARITY_THRESHOLD) =>
                   /\ ~simReport.is_duplicate
                   /\ simReport.confidence = BestSimilarity
                   /\ simReport.recommendation = "ALLOW"
             /\ (/\ RLe(HIGH_SIMILARITY_THRESHOLD, BestSimilarity)
                 /\ RLt(BestSimilarity, EXACT_MATCH_THRESHOLD)) =>
                   /\ simReport.is_duplicate
                   /\ simReport.recommendation = "WARN"
             /\ RLe(EXACT_MATCH_THRESHOLD, BestSimilarity) =>
                   /\ simReport.is_duplicate
                   /\ simReport.recommendation =
                         IF \E m \in simReport.matches :
                               /\ RLe(EXACT_MATCH_THRESHOLD, m.similarity)
                               /\ m.user_id # simReport.user_id
                         THEN "BLOCK" ELSE "WARN"

\* a best match in [0.90, 0.98) warned about, next to a weaker match
C7_Witness ==
    /\ HasSimReport
    /\ simReport.matches # {}
    /\ RLe(HIGH_SIMILARITY_THRESHOLD, BestSimilarity)
    /\ RLt(BestSimilarity, EXACT_MATCH_THRESHOLD)
    /\ simReport.recommendation = "WARN"
    /\ \E m \in simReport.matches : RLt(m.similarity, HIGH_SIMILARITY_THRESHOLD)

(***************************************************************************)
(* ip_clustering.py                                                        *)
(*                                                                         *)
(* Rows carry their age (now - createdAt): activity-log and answer rows in *)
(* days, vote rows in seconds.                                             *)
(***************************************************************************)
MIN_CLUSTER_SIZE == 2
INTERACTION_THRESHOLD == 5
IP_REUSE_DAYS == 7

IpAddresses == {"10.0.0.1", "10.0.0.2"}

\* hashlib.sha256(ip_address.encode()).hexdigest() of the explored addresses
Sha256HexDigest ==
    ("10.0.0.1" :> "f5047344122f0dee9974ba6761e61c6b8649e1f3968d13a635ebbf7be53a3a0d"
     @@ "10.0.0.2" :> "cb5f37b4762871e6bbeccee663cb332438340c469160c634566ecc7c7e01009f")

\* variant: the address is kept as it is
hash_ip_plain(ip_address) == ip_address

hash_ip(ip_address) == Sha256HexDigest[ip_address]

\* who connects from where: all five users from the first address, A and B
\* from the second as well
ExploredLogins ==
    {[user |-> u, ip |-> "10.0.0.1"] : u \in Users}
    \cup {[user |-> u, ip |-> "10.0.0.2"] : u \in {"A", "B"}}

ActivityLogRow(user_id, ip_address, age) ==
    [targetUserId |-> user_id, action |-> "ACTIVITY_LOG",
     ip_hash |-> hash_ip(ip_address), age |-> age]

EarlierLogDays == 3                     \* age of an older entry still in window
StaleLogDays == IP_REUSE_DAYS + 1       \* age of an entry just out of window

\* entries logged before the exploration starts
EarlierLogs ==
    {ActivityLogRow("A", "10.0.0.2", EarlierLogDays),
     ActivityLogRow("E", "10.0.0.1", StaleLogDays)}

\* the votes the exploration casts, in this order
ExploredIpVotes ==
    <<VoteRow("A", "B", "UPVOTE", 0),
      VoteRow("B", "A", "UPVOTE", 0),
      VoteRow("D", "E", "UPVOTE", StaleLogDays * SecondsPerDay),
      VoteRow("C", "A", "UPVOTE", 0),
      VoteRow("A", "C", "DOWNVOTE", 0),
      VoteRow("D", "A", "UPVOTE", 0),
      VoteRow("E", "D", "UPVOTE", 0)>>

\* the answers to each other's doubts the exploration posts
ExploredAnswers ==
    {[userId |-> "B", doubtUserId |-> "A", age |-> 0],
     [userId |-> "A", doubtUserId |-> "B", age |-> 0]}

\* vote rows only: comments and answers are not counted
count_interactions(user1_id, user2_id, lookback_days) ==
    LET votes_1_to_2 ==
            Cardinality({v \in voteGraph :
                            /\ v.voterId = user1_id
                            /\ v.targetUserId = user2_id
                            /\ v.age <= lookback_days * SecondsPerDay})
        votes_2_to_1 ==
            Cardinality({v \in voteGraph :
                            /\ v.voterId = user2_id
                            /\ v.targetUserId = user1_id
                            /\ v.age <= lookback_days * SecondsPerDay})
    IN  votes_1_to_2 + votes_2_to_1

\* the (i, j), i < j, of the double loop over users_list
UserPairs(users) == {pair \in SUBSET users : Cardinality(pair) = 2}

ClusterInteractionCount(users, lookback_days) ==
    LET count == [pair \in UserPairs(users) |->
                     LET first == CHOOSE u \in pair : TRUE
                         second == CHOOSE u \in pair : u # first
                     IN  count_interactions(first, second, lookback_days)]
    IN  SumFun(count, UserPairs(users))

\* variant: the size of the group is not looked at
KeepsCluster_any_size(user_id, users) ==
    user_id = None \/ user_id \in users

\* the two "continue" tests of the cluster loop
KeepsCluster(user_id, users) ==
    /\ Cardinality(users) >= MIN_CLUSTER_SIZE
    /\ user_id = None \/ user_id \in users

\* the clusters, as a set: the list is sorted by descending confidence and
\* each users list is in no particular order
detect_ip_clusters(user_id, lookback_days) ==
    LET logs == {log \in activityLog :
                    log.action = "ACTIVITY_LOG" /\ log.age <= lookback_days}
        ip_to_users == [ip_hash \in {log.ip_hash : log \in logs} |->
                           {log.targetUserId : log \in {l \in logs : l.ip_hash = ip_hash}}]
    IN  {LET users == ip_to_users[ip_hash]
             interaction_count == ClusterInteractionCount(users, lookback_days)
         IN  [shared_ip |-> "[REDACTED]",
              shared_ip_hash |-> ip_hash,
              users |-> users,
              interaction_count |-> interaction_count,
              confidence |-> RMin(RInt(1),
                                  RAdd(RMul(RInt(Cardinality(users) - 1), Rat(2, 10)),
                                       RMul(RInt(interaction_count), Rat(1, 10))))] :
         ip_hash \in {h \in DOMAIN ip_to_users : KeepsCluster(user_id, ip_to_users[h])}}

RECURSIVE ClusterRiskSum(_)
ClusterRiskSum(clusters) ==
    IF clusters = {} THEN RInt(0)
    ELSE LET cluster == CHOOSE c \in clusters : TRUE
             cluster_risk ==
                 RAdd(RMul(RInt(Cardinality(cluster.users) - 1), Rat(15, 100)),
                      IF cluster.interaction_count >= INTERACTION_THRESHOLD
                      THEN Rat(4, 10) ELSE RInt(0))
         IN  RAdd(RMul(cluster_risk, cluster.confidence),
                  ClusterRiskSum(clusters \ {cluster}))

analyze_sock_puppets(user_id, lookback_days) ==
    LET clusters == detect_ip_clusters(user_id, lookback_days)
        risk_score == RMin(RInt(1), ClusterRiskSum(clusters))
    IN  [is_suspicious |-> clusters # {} /\ RLe(Rat(3, 10), risk_score),
         clusters |-> clusters,
         risk_score |-> risk_score,
         recommendation |-> IF RLe(Rat(7, 10), risk_score) THEN "INVESTIGATE"
                            ELSE IF RLe(Rat(4, 10), risk_score) THEN "WARN"
                            ELSE "ALLOW"]

(***************************************************************************)
(* ip_clustering.py: actions                                               *)
(***************************************************************************)
IPInit ==
    /\ activityLog \in {{}, EarlierLogs}
    /\ answerRows = {}
    /\ ipReport = NoIpReport
    /\ voteGraph = {}
    /\ voteReport = NoVoteReport

LogUserActivity(user_id, ip_address) ==
    /\ ActivityLogRow(user_id, ip_address, 0) \notin activityLog
    /\ activityLog' = activityLog \cup {ActivityLogRow(user_id, ip_address, 0)}
    /\ ipReport' = NoIpReport
    /\ UNCHANGED <<answerRows, voteGraph>>
    /\ UNCHANGED otherThanIP

\* the next vote of ExploredIpVotes lands in db.vote_graph
CastIpVote ==
    /\ Cardinality(voteGraph) < Len(ExploredIpVotes)
    /\ voteGraph' = voteGraph \cup {ExploredIpVotes[Cardinality(voteGraph) + 1]}
    /\ ipReport' = NoIpReport
    /\ UNCHANGED <<activityLog, answerRows>>
    /\ UNCHANGED otherThanIP

\* a member answers another member's doubt
AnswerDoubt(row) ==
    /\ row \notin answerRows
    /\ answerRows' = answerRows \cup {row}
    /\ ipReport' = NoIpReport
    /\ UNCHANGED <<activityLog, voteGraph>>
    /\ UNCHANGED otherThanIP

DetectIpClusters(user_id) ==
    /\ ipReport' = [call |-> "detect_ip_clusters", user_id |-> user_id,
                    clusters |-> detect_ip_clusters(user_id, IP_REUSE_DAYS)]
    /\ UNCHANGED <<activityLog, answerRows, voteGraph>>
    /\ UNCHANGED otherThanIP

AnalyzeSockPuppets(user_id) ==
    /\ ipReport' = [call |-> "analyze_sock_puppets", user_id |-> user_id]
                      @@ analyze_sock_puppets(user_id, IP_REUSE_DAYS)
    /\ UNCHANGED <<activityLog, answerRows, voteGraph>>
    /\ UNCHANGED otherThanIP

IPNext ==
    \/ \E login \in ExploredLogins : LogUserActivity(login.user, login.ip)
    \/ CastIpVote
    \/ \E row \in ExploredAnswers : AnswerDoubt(row)
    \/ \E user_id \in {None, "A"} : DetectIpClusters(user_id)
    \/ \E user_id \in {"A", "E"} : AnalyzeSockPuppets(user_id)

InitIP == IPInit /\ TrustIdle /\ TierIdle /\ SimIdle /\ FlagIdle /\ StoreUp /\ DfsIdle /\ ExtIdle

SpecIP == InitIP /\ [][IPNext]_vars

(***************************************************************************)
(* Claims about detect_ip_clusters and analyze_sock_puppets                *)
(***************************************************************************)
\* the users seen on an identifier inside the reuse window
UsersOnHash(ip_hash) ==
    {log.targetUserId : log \in {l \in activityLog :
                                    l.ip_hash = ip_hash /\ l.age <= IP_REUSE_DAYS}}

HashesInWindow == {log.ip_hash : log \in {l \in activityLog : l.age <= IP_REUSE_DAYS}}

\* votes and answers exchanged between two different members inside the window
CrossInteractions(users, days) ==
    Cardinality({v \in voteGraph :
                    /\ v.voterId \in users /\ v.targetUserId \in users
                    /\ v.voterId # v.targetUserId
                    /\ v.age <= days * SecondsPerDay})
    + Cardinality({a \in answerRows :
                      /\ a.userId \in users /\ a.doubtUserId \in users
                      /\ a.userId # a.doubtUserId
                      /\ a.age <= days})

MemberVotes(users, days) ==
    Cardinality({v \in voteGraph :
                    /\ v.voterId \in users /\ v.targetUserId \in users
                    /\ v.voterId # v.targetUserId
                    /\ v.age <= days * SecondsPerDay})

IsSockPuppetReport == HasIpReport /\ ipReport.call = "analyze_sock_puppets"

\* C8: when 5 users including the subject share one hashed identifier in the
\* 7-day window and exchanged at least 6 cross-interactions (votes, comments,
\* answers) in that window, analyze_sock_puppets returns a risk score >= 0.7
\* and INVESTIGATE.
C8_FiveSharingUsersAreInvestigated ==
    IsSockPuppetReport =>
        \A ip_hash \in HashesInWindow :
            (/\ Cardinality(UsersOnHash(ip_hash)) = 5
             /\ ipReport.user_id \in UsersOnHash(ip_hash)
             /\ CrossInteractions(UsersOnHash(ip_hash), IP_REUSE_DAYS) >= 6)
            => /\ RLe(Rat(7, 10), ipReport.risk_score)
               /\ ipReport.recommendation = "INVESTIGATE"

\* the same five users when all six interactions are votes: the report is
\* INVESTIGATE with a risk score >= 0.7
FiveSharingUsersWithSixVotesAreInvestigated ==
    IsSockPuppetReport =>
        \A ip_hash \in HashesInWindow :
            (/\ Cardinality(UsersOnHash(ip_hash)) = 5
             /\ ipReport.user_id \in UsersOnHash(ip_hash)
             /\ MemberVotes(UsersOnHash(ip_hash), IP_REUSE_DAYS) >= 6)
            => /\ RLe(Rat(7, 10), ipReport.risk_score)
               /\ ipReport.recommendation = "INVESTIGATE"

FiveSharingUsersWithSixVotesReached ==
    /\ IsSockPuppetReport
    /\ ipReport.recommendation = "INVESTIGATE"
    /\ \E ip_hash \in HashesInWindow :
          /\ Cardinality(UsersOnHash(ip_hash)) = 5
          /\ MemberVotes(UsersOnHash(ip_hash), IP_REUSE_DAYS) >= 6

\* C9: every reported cluster has at least 2 distinct users, contains the
\* subject when one is given, and its identifier is used by at least 2 users
\* in the window: an identifier with exactly one user is never reported.
C9_ClustersHaveTwoUsers ==
    HasIpReport =>
        /\ \A cluster \in ipReport.clusters :
              /\ Cardinality(cluster.users) >= 2
              /\ ipReport.user_id # None => ipReport.user_id \in cluster.users
              /\ cluster.users = UsersOnHash(cluster.shared_ip_hash)
        /\ \A ip_hash \in HashesInWindow :
              Cardinality(UsersOnHash(ip_hash)) = 1 =>
                  \A cluster \in ipReport.clusters : cluster.shared_ip_hash # ip_hash

\* a report for a subject with a cluster in it, while another identifier of
\* the subject, logged twice, has no other user
C9_Witness ==
    /\ HasIpReport
    /\ ipReport.user_id # None
    /\ ipReport.clusters # {}
    /\ \E ip_hash \in HashesInWindow :
          /\ UsersOnHash(ip_hash) = {ipReport.user_id}
          /\ Cardinality({l \in activityLog : l.ip_hash = ip_hash}) >= 2

(***************************************************************************)
(* The flag emitters: flag_vote_manipulation, flag_duplicate_content and   *)
(* flag_sock_puppets append one row each to db.abuse_flag.  A new row is   *)
(* unresolved.                                                             *)
(***************************************************************************)
\* variant: the vote emitter on the scale of the sock-puppet emitter
vote_flag_severity_shifted(report) ==
    IF RLe(Rat(7, 10), report.risk_score) THEN "CRITICAL"
    ELSE IF RLe(Rat(4, 10), report.risk_score) THEN "HIGH"
    ELSE "MEDIUM"

vote_flag_severity(report) ==
    IF RLe(Rat(7, 10), report.risk_score) THEN "HIGH"
    ELSE IF RLe(Rat(4, 10), report.risk_score) THEN "MEDIUM"
    ELSE "LOW"

flag_vote_manipulation(user_id, report) ==
    [userId |-> user_id,
     flagType |-> "VOTE_MANIPULATION",
     severity |-> vote_flag_severity(report),
     details |-> [risk_score |-> report.risk_score,
                  patterns |-> [i \in 1..Len(report.patterns) |->
                                   [type |-> report.patterns[i].pattern_type,
                                    confidence |-> report.patterns[i].confidence,
                                    evidence |-> report.patterns[i].evidence]],
                  recommendation |-> report.recommendation],
     autoModerated |-> report.recommendation = "INVESTIGATE",
     resolved |-> FALSE]

\* the rows flag_duplicate_content can create: similar_to is matches[:3]
flag_duplicate_content(user_id, report) ==
    {[userId |-> user_id,
      flagType |-> "DUPLICATE_CONTENT",
      severity |-> IF report.recommendation = "BLOCK" THEN "HIGH" ELSE "MEDIUM",
      details |-> [confidence |-> report.confidence,
                   matches_count |-> Cardinality(report.matches),
                   recommendation |-> report.recommendation,
                   similar_to |-> {[content_id |-> m.content_id,
                                    user_id |-> m.user_id,
                                    similarity |-> m.similarity] : m \in first}],
      autoModerated |-> report.recommendation = "BLOCK",
      resolved |-> FALSE] : first \in TopMatches(report.matches, 3)}

ClusterSummary(cluster) ==
    [users_count |-> Cardinality(cluster.users),
     interaction_count |-> cluster.interaction_count,
     confidence |-> cluster.confidence]

\* details.clusters is a list: here each summary with the number of times it
\* occurs
flag_sock_puppets(user_id, report) ==
    [userId |-> user_id,
     flagType |-> "SOCK_PUPPET",
     severity |-> IF RLe(Rat(7, 10), report.risk_score) THEN "CRITICAL"
                  ELSE IF RLe(Rat(4, 10), report.risk_score) THEN "HIGH"
                  ELSE "MEDIUM",
     details |-> [risk_score |-> report.risk_score,
                  clusters |-> [summary \in {ClusterSummary(c) : c \in report.clusters} |->
                                   Cardinality({c \in report.clusters :
                                                   ClusterSummary(c) = summary})],
                  recommendation |-> report.recommendation],
     autoModerated |-> report.recommendation = "INVESTIGATE",
     resolved |-> FALSE]

MaxFlags == 2       \* the exploration stops flagging after MaxFlags rows

FingerprintRow(content, text) ==
    [contentId |-> content.id, contentType |-> content.type, userId |-> content.owner,
     embedding |-> EmbeddingOfText[text], contentHash |-> HashOfText[text],
     createdAt |-> 0]

\* the stores the emitters are explored on: an empty one, one with a vote
\* ring A -> B -> C -> A, one with A voting mutually with B, C and D
FlagScenarios ==
    {[voteGraph |-> {}, activityLog |-> {}, contentEmbeddings |-> {}],
     [voteGraph |-> {VoteRow("A", "B", "UPVOTE", 0), VoteRow("B", "C", "UPVOTE", 0),
                     VoteRow("C", "A", "UPVOTE", 0)},
      activityLog |-> {ActivityLogRow(u, "10.0.0.1", 0) : u \in {"A", "B", "C"}},
      contentEmbeddings |->
          {FingerprintRow([id |-> "c1", type |-> "answer", owner |-> "X"],
                          <<"A", " ", " ", "b">>)}],
     [voteGraph |-> {VoteRow("A", x, "UPVOTE", 0) : x \in {"B", "C", "D"}}
                    \cup {VoteRow(x, "A", "UPVOTE", 0) : x \in {"B", "C", "D"}},
      activityLog |-> {ActivityLogRow(u, "10.0.0.1", 0) : u \in {"A", "B", "C"}}
                      \cup {ActivityLogRow("A", "10.0.0.2", 0)},
      contentEmbeddings |->
          {FingerprintRow([id |-> "c1", type |-> "answer", owner |-> "X"],
                          <<"A", " ", " ", "b">>),
           FingerprintRow([id |-> "c2", type |-> "answer", owner |-> "Y"],
                          <<"a", "a", "a", "a">>)}]}

FlagInit ==
    /\ \E scenario \in FlagScenarios :
          /\ voteGraph = scenario.voteGraph
          /\ activityLog = scenario.activityLog
          /\ contentEmbeddings = scenario.contentEmbeddings
    /\ voteReport = NoVoteReport
    /\ answerRows = {}
    /\ ipReport = NoIpReport
    /\ simNow = 0
    /\ simReport = NoSimReport
    /\ abuseFlags = <<>>

\* the user a vote report is about: the analysed user, or the author of the
\* analysed content
ReportedUser(report) ==
    IF report.kind = "user" THEN report.subject
    ELSE CHOOSE u \in Users : ContentOf[u] = report.subject

FlagVoteManipulation ==
    /\ HasVoteReport
    /\ Len(abuseFlags) < MaxFlags
    /\ abuseFlags' = Append(abuseFlags,
                            flag_vote_manipulation(ReportedUser(voteReport), voteReport))
    /\ UNCHANGED <<trustVars, tierVars, voteVars, simVars, ipVars, faultVars, dfsVars, extVars>>

FlagDuplicateContent ==
    /\ HasSimReport
    /\ Len(abuseFlags) < MaxFlags
    /\ \E flag \in flag_duplicate_content(simReport.user_id, simReport) :
          abuseFlags' = Append(abuseFlags, flag)
    /\ UNCHANGED <<trustVars, tierVars, voteVars, simVars, ipVars, faultVars, dfsVars, extVars>>

\* variant: the new row takes the place of the rows stored so far
FlagSockPuppets_replacing ==
    /\ HasIpReport
    /\ ipReport.call = "analyze_sock_puppets"
    /\ Len(abuseFlags) < MaxFlags
    /\ abuseFlags' = <<flag_sock_puppets(ipReport.user_id, ipReport)>>
    /\ UNCHANGED <<trustVars, tierVars, voteVars, simVars, ipVars, faultVars, dfsVars, extVars>>

FlagSockPuppets ==
    /\ HasIpReport
    /\ ipReport.call = "analyze_sock_puppets"
    /\ Len(abuseFlags) < MaxFlags
    /\ abuseFlags' = Append(abuseFlags, flag_sock_puppets(ipReport.user_id, ipReport))
    /\ UNCHANGED <<trustVars, tierVars, voteVars, simVars, ipVars, faultVars, dfsVars, extVars>>

FlagNext ==
    \/ \E user_id \in {"D", "E"} : LogUserActivity(user_id, "10.0.0.1")
    \/ AnalyzeUserVoting("A")
    \/ AnalyzeContentVoting(ContentOf["A"])
    \/ DetectIpClusters(None)
    \/ AnalyzeSockPuppets("A")
    \/ \E text \in Texts :
          CheckSimilarity([id |-> "c3", type |-> "answer", owner |-> "X"], text, FALSE)
    \/ FlagVoteManipulation
    \/ FlagDuplicateContent
    \/ FlagSockPuppets

InitFlags == FlagInit /\ TrustIdle /\ TierIdle /\ StoreUp /\ DfsIdle /\ ExtIdle

SpecFlags == InitFlags /\ [][FlagNext]_vars

(***************************************************************************)
(* Claims about the reports and the flag emitters                          *)
(***************************************************************************)
BandOfRisk(risk_score, recommendation) ==
    /\ InUnit(risk_score)
    /\ recommendation = "INVESTIGATE" <=> RLe(Rat(7, 10), risk_score)
    /\ recommendation = "WARN" <=>
          (RLe(Rat(4, 10), risk_score) /\ RLt(risk_score, Rat(7, 10)))
    /\ recommendation = "ALLOW" <=> RLt(risk_score, Rat(4, 10))

IsUserVoteReport == HasVoteReport /\ voteReport.kind = "user"

\* C11: in every report of analyze_user_voting and analyze_sock_puppets the
\* risk score is in [0, 1] and the recommendation is INVESTIGATE iff the
\* score is >= 0.7, WARN iff it is in [0.4, 0.7), ALLOW iff it is < 0.4.
C11_RecommendationFollowsRisk ==
    /\ IsUserVoteReport => BandOfRisk(voteReport.risk_score, voteReport.recommendation)
    /\ IsSockPuppetReport => BandOfRisk(ipReport.risk_score, ipReport.recommendation)

\* a ring report at exactly 0.7 next to a sock-puppet report in the WARN band
C11_Witness ==
    /\ IsUserVoteReport
    /\ voteReport.risk_score = Rat(7, 10)
    /\ voteReport.recommendation = "INVESTIGATE"
    /\ IsSockPuppetReport
    /\ ipReport.recommendation = "WARN"

\* the fields of the stored rows and of the returned reports that hold text
LogTexts == UNION {{log.targetUserId, log.action, log.ip_hash} : log \in activityLog}

ClusterTexts(clusters) ==
    UNION {{c.shared_ip, c.shared_ip_hash} \cup c.users : c \in clusters}

SockPuppetFlags ==
    {abuseFlags[i] : i \in {j \in 1..Len(abuseFlags) :
                               abuseFlags[j].flagType = "SOCK_PUPPET"}}

FlagTexts ==
    UNION {{flag.userId, flag.flagType, flag.severity, flag.details.recommendation} :
              flag \in SockPuppetFlags}

\* C12: no activity-log entry, no abuse flag and no returned report holds a raw
\* network identifier: the log holds the one-way hash only, every cluster
\* carries "[REDACTED]" as shared_ip, and a sock-puppet flag holds nothing of a
\* cluster but its user count, interaction count and confidence.
C12_NoRawNetworkIdentifier ==
    /\ LogTexts \cap IpAddresses = {}
    /\ \A log \in activityLog : \E ip \in IpAddresses : log.ip_hash = Sha256HexDigest[ip]
    /\ FlagTexts \cap IpAddresses = {}
    /\ \A flag \in SockPuppetFlags :
          /\ DOMAIN flag.details = {"risk_score", "clusters", "recommendation"}
          /\ \A summary \in DOMAIN flag.details.clusters :
                DOMAIN summary = {"users_count", "interaction_count", "confidence"}
    /\ HasIpReport =>
          /\ ClusterTexts(ipReport.clusters) \cap IpAddresses = {}
          /\ \A c \in ipReport.clusters : c.shared_ip = "[REDACTED]"

\* an address was logged during the run, a cluster on it was reported and a
\* sock-puppet flag was stored for it
C12_Witness ==
    /\ \E log \in activityLog : log.targetUserId \in {"D", "E"}
    /\ HasIpReport
    /\ ipReport.clusters # {}
    /\ \E flag \in SockPuppetFlags : DOMAIN flag.details.clusters # {}

FlagsOfType(flagType) ==
    {abuseFlags[i] : i \in {j \in 1..Len(abuseFlags) : abuseFlags[j].flagType = flagType}}

StoredFlags == {abuseFlags[i] : i \in 1..Len(abuseFlags)}

\* the report's risk reached 0.7; a duplicate-content flag stores no risk
FlagRiskIsHigh(flag) ==
    /\ flag.flagType # "DUPLICATE_CONTENT"
    /\ RLe(Rat(7, 10), flag.details.risk_score)

\* C13 (as stated): for every flag type, recommendation INVESTIGATE or risk
\* >= 0.7 gives CRITICAL or HIGH, recommendation WARN gives MEDIUM, anything
\* else gives LOW.
C13_SeverityFollowsRecommendation ==
    \A flag \in StoredFlags :
        IF flag.details.recommendation = "INVESTIGATE" \/ FlagRiskIsHigh(flag)
        THEN flag.severity \in {"CRITICAL", "HIGH"}
        ELSE IF flag.details.recommendation = "WARN"
        THEN flag.severity = "MEDIUM"
        ELSE flag.severity = "LOW"

\* C13 (amended): each emitter has its own scale.  VOTE_MANIPULATION: risk
\* >= 0.7 gives HIGH, risk in [0.4, 0.7) MEDIUM, below that LOW.  SOCK_PUPPET:
\* risk >= 0.7 gives CRITICAL, risk in [0.4, 0.7) HIGH, below that MEDIUM.
\* DUPLICATE_CONTENT: recommendation BLOCK gives HIGH, anything else MEDIUM.
C13_SeverityPerFlagType ==
    /\ \A flag \in FlagsOfType("VOTE_MANIPULATION") :
          flag.severity =
             IF RLe(Rat(7, 10), flag.details.risk_score) THEN "HIGH"
             ELSE IF RLe(Rat(4, 10), flag.details.risk_score) THEN "MEDIUM"
             ELSE "LOW"
    /\ \A flag \in FlagsOfType("SOCK_PUPPET") :
          flag.severity =
             IF RLe(Rat(7, 10), flag.details.risk_score) THEN "CRITICAL"
             ELSE IF RLe(Rat(4, 10), flag.details.risk_score) THEN "HIGH"
             ELSE "MEDIUM"
    /\ \A flag \in FlagsOfType("DUPLICATE_CONTENT") :
          flag.severity =
             IF flag.details.recommendation = "BLOCK" THEN "HIGH" ELSE "MEDIUM"

\* a sock-puppet flag of a WARN report and a vote flag of an INVESTIGATE
\* report, both stored as HIGH
C13_Witness ==
    /\ \E flag \in FlagsOfType("SOCK_PUPPET") :
          flag.details.recommendation = "WARN" /\ flag.severity = "HIGH"
    /\ \E flag \in FlagsOfType("VOTE_MANIPULATION") :
          flag.details.recommendation = "INVESTIGATE" /\ flag.severity = "HIGH"

\* the user the flag call of the step was made for
FlaggedUserOfStep(flag) ==
    CASE flag.flagType = "VOTE_MANIPULATION" -> ReportedUser(voteReport)
      [] flag.flagType = "DUPLICATE_CONTENT" -> simReport.user_id
      [] flag.flagType = "SOCK_PUPPET" -> ipReport.user_id

\* C14: the abuse-flag log is append-only: a flag call appends one new row
\* for the given user, and every row stored before is still there, in place,
\* with the same severity, details, autoModerated and resolved.
C14_FlagLogIsAppendOnly ==
    [][/\ Len(abuseFlags') >= Len(abuseFlags)
       /\ SubSeq(abuseFlags', 1, Len(abuseFlags)) = abuseFlags
       /\ abuseFlags' # abuseFlags =>
             /\ Len(abuseFlags') = Len(abuseFlags) + 1
             /\ abuseFlags'[Len(abuseFlags')].userId =
                   FlaggedUserOfStep(abuseFlags'[Len(abuseFlags')])
             /\ ~abuseFlags'[Len(abuseFlags')].resolved]_vars

\* two rows of two emitters are stored
C14_Witness ==
    /\ Len(abuseFlags) = 2
    /\ abuseFlags[1].flagType # abuseFlags[2].flagType
    /\ abuseFlags[2].flagType = "SOCK_PUPPET"


(***************************************************************************)
(* Store faults.  get_db() raises RuntimeError when the client is not      *)
(* connected, and every awaited query can raise.  storeFault names the     *)
(* calls that raise: None, the calls of one query of calculate_trust_score *)
(* or, with "unreachable", every call.                                     *)
(***************************************************************************)
\* the three store queries of calculate_trust_score, in the order it makes them
TrustQueries == <<"user", "fact_check_log", "interactions">>

\* the component computed from each of the two component-owned queries
ComponentOfQuery == [fact_check_log |-> "nli_track_record",
                     interactions |-> "interaction_entropy"]

ComponentQueries == DOMAIN ComponentOfQuery

Unreachable == "unreachable"

\* a call that ended in an exception instead of a return value
Raised(subject, query) == [user_id |-> subject, raised |-> query]

HasRaised(result) == "raised" \in DOMAIN result

\* does this query raise under the current fault
QueryFails(query) == storeFault \in {query, Unreachable}

\* a variant in which each component catches its own query's exception and
\* falls back to the value the new-user result gives that component
trust_score_call_isolating(user_id) ==
    IF QueryFails("user") THEN Raised(user_id, "user")
    ELSE IF user_id # "u1" THEN [user_id |-> user_id] @@ DefaultTrustResult
    ELSE LET computed == calculate_trust_score(user_id).components
             components ==
                 [k \in ComponentNames |->
                     IF \E q \in ComponentQueries :
                            QueryFails(q) /\ ComponentOfQuery[q] = k
                     THEN DefaultTrustResult.components[k]
                     ELSE computed[k]]
             final_score == WeightedSum(components)
         IN  [user_id |-> user_id, score |-> final_score, components |-> components,
              tier |-> get_trust_tier(final_score)]

\* calculate_trust_score as the caller sees it.  No call is guarded: the
\* first failing query raises out of the function.  An unknown user returns
\* before the component queries are made.
trust_score_call(user_id) ==
    IF QueryFails("user") THEN Raised(user_id, "user")
    ELSE IF user_id # "u1" THEN [user_id |-> user_id] @@ DefaultTrustResult
    ELSE IF QueryFails("fact_check_log") THEN Raised(user_id, "fact_check_log")
    ELSE IF QueryFails("interactions") THEN Raised(user_id, "interactions")
    ELSE [user_id |-> user_id] @@ calculate_trust_score(user_id)

\* one query starts to fail or to time out
QueryStartsFailing(query) ==
    /\ storeFault = None
    /\ storeFault' = query
    /\ UNCHANGED <<trustVars, tierVars, voteVars, simVars, ipVars, flagVars, dfsVars, extVars>>

StoreRecovers ==
    /\ storeFault # None
    /\ storeFault' = None
    /\ UNCHANGED <<trustVars, tierVars, voteVars, simVars, ipVars, flagVars, dfsVars, extVars>>

CalculateTrustScoreCall(user_id) ==
    /\ trustResult' = trust_score_call(user_id)
    /\ UNCHANGED otherThanTrust
    /\ UNCHANGED <<masteryRecords, factCheckLog, answers, accountAgeDays,
                   interactionRows, userVotes, userAbuseFlags>>

TrustFaultNext ==
    \/ \E s \in MasteryScores : RecordMastery(s)
    \/ \E v \in Verdicts : LogFactCheck(v)
    \/ AgeAccount
    \/ Interact
    \/ RaiseAbuseFlag
    \/ \E i \in 1..Len(TrustQueries) : QueryStartsFailing(TrustQueries[i])
    \/ StoreRecovers
    \/ \E u \in UserIds : CalculateTrustScoreCall(u)

InitTrustFaults == TrustInit /\ TierIdle /\ VoteIdle /\ SimIdle /\ IPIdle /\ FlagIdle /\ StoreUp /\ DfsIdle /\ ExtIdle

SpecTrustFaults == InitTrustFaults /\ [][TrustFaultNext]_vars

\* the step is a trust call for the known user made while exactly one
\* component-owned query fails
IsTrustCallUnderComponentFault ==
    /\ storeFault \in ComponentQueries
    /\ storeFault' = storeFault
    /\ trustResult' # trustResult
    /\ trustResult'.user_id = "u1"

\* C15: when a single component's store query fails while the user lookup
\* succeeds, calculate_trust_score still returns a complete result: the
\* failing component holds its neutral default, the other eight components
\* are computed normally, and the computation is never aborted.
C15_ComponentFailureIsIsolated ==
    [][IsTrustCallUnderComponentFault =>
          /\ ~HasRaised(trustResult')
          /\ trustResult' = trust_score_call_isolating("u1")]_vars

\* the case of C15: a call for the known user, with a history that gives the
\* sibling components non-default values, made while one component query fails
C15_CallUnderComponentFault ==
    /\ storeFault \in ComponentQueries
    /\ trustResult.user_id = "u1"
    /\ accountAgeDays > 0
    /\ Len(userAbuseFlags) > 0


(***************************************************************************)
(* The detectors while the store is unreachable.  Every detector function  *)
(* wraps get_db() and its queries in try/except and returns its empty      *)
(* value ([] or None) from the handler; store_content_embedding swallows   *)
(* the exception of its upsert.  The analyzers then build their report     *)
(* from the empty values.                                                  *)
(***************************************************************************)
\* detect_mutual_voting and detect_vote_ring both returned None
analyze_user_voting_unreachable(user_id) ==
    LET patterns == <<>>
        risk_score == RMin(RInt(1), user_risk_sum(patterns))
    IN  [subject |-> user_id,
         kind |-> "user",
         is_suspicious |-> Len(patterns) > 0,
         patterns |-> patterns,
         risk_score |-> risk_score,
         recommendation |-> RiskRecommendation(risk_score)]

\* detect_coordinated_voting returned None
analyze_content_voting_unreachable(content_id) ==
    [subject |-> content_id,
     kind |-> "content",
     is_suspicious |-> FALSE,
     patterns |-> <<>>,
     risk_score |-> RInt(0),
     recommendation |-> "ALLOW"]

\* detect_ip_clusters returned []
analyze_sock_puppets_unreachable(user_id) ==
    LET clusters == {}
        risk_score == RMin(RInt(1), ClusterRiskSum(clusters))
    IN  [is_suspicious |-> clusters # {} /\ RLe(Rat(3, 10), risk_score),
         clusters |-> clusters,
         risk_score |-> risk_score,
         recommendation |-> IF RLe(Rat(7, 10), risk_score) THEN "INVESTIGATE"
                            ELSE IF RLe(Rat(4, 10), risk_score) THEN "WARN"
                            ELSE "ALLOW"]

\* find_similar_content returned []; the hash and the embedding are computed
\* without the store
check_similarity_unreachable(content, text, auto_store) ==
    LET matches == {}
        verdict == ClassifyMatches(content.owner, matches)
    IN  [content_id |-> content.id, content_type |-> content.type,
         user_id |-> content.owner, text |-> text,
         content_hash |-> HashOfText[text], auto_store |-> auto_store,
         is_duplicate |-> verdict.is_duplicate,
         confidence |-> verdict.confidence,
         matches |-> matches,
         recommendation |-> verdict.recommendation]

StoreBecomesUnreachable ==
    /\ storeFault = None
    /\ storeFault' = Unreachable
    /\ UNCHANGED <<trustVars, tierVars, voteVars, simVars, ipVars, flagVars, dfsVars, extVars>>

AnalyzeUserVotingCall(user_id) ==
    \/ StoreUp /\ AnalyzeUserVoting(user_id)
    \/ /\ storeFault = Unreachable
       /\ voteReport' = analyze_user_voting_unreachable(user_id)
       /\ UNCHANGED voteGraph
       /\ UNCHANGED otherThanVote

AnalyzeContentVotingCall(content_id) ==
    \/ StoreUp /\ AnalyzeContentVoting(content_id)
    \/ /\ storeFault = Unreachable
       /\ voteReport' = analyze_content_voting_unreachable(content_id)
       /\ UNCHANGED voteGraph
       /\ UNCHANGED otherThanVote

AnalyzeSockPuppetsCall(user_id) ==
    \/ StoreUp /\ AnalyzeSockPuppets(user_id)
    \/ /\ storeFault = Unreachable
       /\ ipReport' = [call |-> "analyze_sock_puppets", user_id |-> user_id]
                         @@ analyze_sock_puppets_unreachable(user_id)
       /\ UNCHANGED <<activityLog, answerRows, voteGraph>>
       /\ UNCHANGED otherThanIP

\* with auto_store the upsert of store_content_embedding raises as well and
\* is swallowed: nothing is written
CheckSimilarityCall(content, text, auto_store) ==
    \/ StoreUp /\ CheckSimilarity(content, text, auto_store)
    \/ /\ storeFault = Unreachable
       /\ simReport' = check_similarity_unreachable(content, text, auto_store)
       /\ UNCHANGED <<contentEmbeddings, simNow>>
       /\ UNCHANGED otherThanSim

OutageNext ==
    \/ StoreBecomesUnreachable
    \/ StoreRecovers
    \/ \E user_id \in {"A", "E"} : AnalyzeUserVotingCall(user_id)
    \/ AnalyzeContentVotingCall(ContentOf["A"])
    \/ \E user_id \in {"A", "E"} : AnalyzeSockPuppetsCall(user_id)
    \/ \E text \in Texts, auto_store \in BOOLEAN :
          CheckSimilarityCall([id |-> "c3", type |-> "answer", owner |-> "X"],
                              text, auto_store)

InitOutage == FlagInit /\ TrustIdle /\ TierIdle /\ StoreUp /\ DfsIdle /\ ExtIdle

SpecOutage == InitOutage /\ [][OutageNext]_vars

\* the step is a detector call made while the store is unreachable; its
\* outcome is the new value of the report the call returns
OutageCallOutcomes ==
    IF storeFault = Unreachable /\ storeFault' = Unreachable
    THEN {r \in {voteReport', ipReport', simReport'} :
             r \notin {voteReport, ipReport, simReport}}
    ELSE {}

\* C16: when the store cannot be reached at all, check_similarity,
\* analyze_user_voting, analyze_content_voting and analyze_sock_puppets end
\* in a service-level error; they never return a report, in particular no
\* ALLOW report with risk 0.
C16_UnreachableStoreRaises ==
    [][\A outcome \in OutageCallOutcomes : HasRaised(outcome)]_vars

\* the case of C16: a detector was called on a store that holds a vote ring
\* and a shared address while the store was unreachable
C16_CallDuringOutage ==
    /\ storeFault = Unreachable
    /\ voteGraph # {}
    /\ HasVoteReport
    /\ voteReport.subject = "A"
    /\ voteReport.recommendation = "ALLOW"


(***************************************************************************)
(* check_similarity called twice                                           *)
(***************************************************************************)
\* the arguments a report was returned for
CallOf(report) ==
    [content_id |-> report.content_id, content_type |-> report.content_type,
     user_id |-> report.user_id, text |-> report.text,
     auto_store |-> report.auto_store]

\* what the caller compares of a report
VerdictOf(report) ==
    [is_duplicate |-> report.is_duplicate, confidence |-> report.confidence,
     recommendation |-> report.recommendation]

\* The step is a second check_similarity call with the arguments of the call
\* that returned simReport, autoStore=true.  Every step between two calls
\* replaces or clears simReport, so the store is as the first call left it.
IsRetryStep ==
    /\ HasSimReport
    /\ simReport.auto_store
    /\ IsCheckStep
    /\ CallOf(simReport') = CallOf(simReport)

\* C17: check_similarity is idempotent: a second call with the same
\* (contentID, contentType, ownerID, text, autoStore=true), with no other
\* store change in between, returns the same isDuplicate, confidence and
\* recommendation as the first call.
C17_RetryReturnsSameReport ==
    [][IsRetryStep => VerdictOf(simReport') = VerdictOf(simReport)]_vars

\* the case of C17: the first call found nothing and stored the fingerprint;
\* the retry finds that fingerprint
C17_RetryFindsOwnFingerprint ==
    /\ HasSimReport
    /\ simReport.auto_store
    /\ simReport.is_duplicate
    /\ \E m \in simReport.matches : m.content_id = simReport.content_id


(***************************************************************************)
(* detect_vote_ring, one step of find_cycle at a time.  dfsStack holds the *)
(* frames of the recursion.  A frame is entered ("enter"), iterates over   *)
(* graph.get(current, []) ("loop") or has returned ("returned"); its value *)
(* is the set holding the returned cycle, empty for None.                  *)
(***************************************************************************)
Frame(pc, current, path, visited, todo, value) ==
    [pc |-> pc, current |-> current, path |-> path, visited |-> visited,
     todo |-> todo, value |-> value]

Returned(frame, value) == [frame EXCEPT !.pc = "returned", !.value = value]

TopFrame == dfsStack[Len(dfsStack)]

\* the stack with its innermost frame replaced
WithTop(frame) == [dfsStack EXCEPT ![Len(dfsStack)] = frame]

\* a variant that never records the current user
VisitedAfter_forgetful(visited, current) == visited

\* visited.add(current)
VisitedAfter(visited, current) == visited \cup {current}

\* the vote_graph rows of a set of <<voter, target>> pairs
RowsOf(edges) == {VoteRow(e[1], e[2], "UPVOTE", 0) : e \in edges}

\* the users every graph over them is explored for
RingUsers == {"A", "B", "C"}

\* the users of the two dense graphs
DenseUsers == {"A", "B", "C", "D"}

\* A votes for B; B, C and D all vote for each other and for themselves, and
\* nobody votes for A: no ring holds A, the search has to exhaust the paths
DeadEndEdges == {<<"A", "B">>} \cup ((DenseUsers \ {"A"}) \X (DenseUsers \ {"A"}))

\* the vote graphs the search is explored on: every graph over RingUsers
\* (self-votes and mutual votes included), the complete graph over DenseUsers
\* and the dead-end graph
RingGraphs ==
    {RowsOf(edges) : edges \in SUBSET (RingUsers \X RingUsers)}
        \cup {RowsOf(DenseUsers \X DenseUsers), RowsOf(DeadEndEdges)}

RingInit ==
    /\ voteGraph \in RingGraphs
    /\ voteReport = NoVoteReport
    /\ dfsStack = <<>>

\* cycle = find_cycle(user_id, user_id, [], set())
CallFindCycle(user_id) ==
    /\ dfsStack = <<>>
    /\ dfsStack' = <<Frame("enter", user_id, <<>>, {}, {}, {})>>
    /\ UNCHANGED <<trustVars, tierVars, voteVars, simVars, ipVars, flagVars, faultVars, extVars>>

\* the two early returns, then visited.add(current) and the start of the loop
EnterFrame ==
    /\ dfsStack # <<>>
    /\ TopFrame.pc = "enter"
    /\ LET f == TopFrame
           start == dfsStack[1].current
           graph == VotingGraph(DEFAULT_LOOKBACK_DAYS)
       IN  dfsStack' =
             WithTop(IF f.current \in f.visited
                     THEN IF f.current = start /\ Len(f.path) >= VOTE_RING_MIN_SIZE
                          THEN Returned(f, {f.path \o <<f.current>>})
                          ELSE Returned(f, {})
                     ELSE IF Len(f.path) > MAX_CYCLE_PATH THEN Returned(f, {})
                     ELSE [f EXCEPT !.pc = "loop",
                                    !.visited = VisitedAfter(f.visited, f.current),
                                    !.todo = graph[f.current]])
    /\ UNCHANGED <<trustVars, tierVars, voteVars, simVars, ipVars, flagVars, faultVars, extVars>>

\* the loop takes its next neighbor, in any order, and calls
\* find_cycle(start, neighbor, path + [current], visited.copy())
VisitNeighbor ==
    /\ dfsStack # <<>>
    /\ TopFrame.pc = "loop"
    /\ \E neighbor \in TopFrame.todo :
          LET f == TopFrame
          IN  dfsStack' =
                Append(WithTop([f EXCEPT !.todo = f.todo \ {neighbor}]),
                       Frame("enter", neighbor, f.path \o <<f.current>>,
                             f.visited, {}, {}))
    /\ UNCHANGED <<trustVars, tierVars, voteVars, simVars, ipVars, flagVars, faultVars, extVars>>

\* the loop is over: return None
LoopExhausted ==
    /\ dfsStack # <<>>
    /\ TopFrame.pc = "loop"
    /\ TopFrame.todo = {}
    /\ dfsStack' = WithTop(Returned(TopFrame, {}))
    /\ UNCHANGED <<trustVars, tierVars, voteVars, simVars, ipVars, flagVars, faultVars, extVars>>

\* "if cycle: return cycle", otherwise the caller's loop goes on
ReturnToCaller ==
    /\ Len(dfsStack) > 1
    /\ TopFrame.pc = "returned"
    /\ LET value == TopFrame.value
           callers == SubSeq(dfsStack, 1, Len(dfsStack) - 1)
           caller == callers[Len(callers)]
       IN  dfsStack' = IF value # {}
                       THEN [callers EXCEPT ![Len(callers)] = Returned(caller, value)]
                       ELSE callers
    /\ UNCHANGED <<trustVars, tierVars, voteVars, simVars, ipVars, flagVars, faultVars, extVars>>

RingNext ==
    \/ CallFindCycle("A")
    \/ EnterFrame
    \/ VisitNeighbor
    \/ LoopExhausted
    \/ ReturnToCaller

InitRing == RingInit /\ TrustIdle /\ TierIdle /\ SimIdle /\ IPIdle /\ FlagIdle /\ StoreUp /\ ExtIdle

\* the interpreter keeps running the search: a step that can be taken is taken
SpecRing == InitRing /\ [][RingNext]_vars /\ WF_vars(RingNext)

\* the outermost call has returned
RingSearchDone == Len(dfsStack) = 1 /\ dfsStack[1].pc = "returned"

\* the users of a sequence are pairwise different
Distinct(seq) == \A i, j \in DOMAIN seq : i # j => seq[i] # seq[j]

\* a frame that went past the visited test extends its path by a new user
NoRevisitOnPath ==
    \A i \in DOMAIN dfsStack :
        dfsStack[i].pc = "loop" =>
            Distinct(dfsStack[i].path \o <<dfsStack[i].current>>)

\* the recursion is never deeper than one frame per user plus the frame that
\* meets a visited user, nor deeper than the path cap allows
DepthBounded ==
    /\ Len(dfsStack) <= Cardinality(Users) + 1
    /\ Len(dfsStack) <= MAX_CYCLE_PATH + 2

\* the step-wise search ends with a result of the recursive definition
StepwiseSearchAgrees ==
    RingSearchDone =>
        LET cycles == find_cycle(VotingGraph(DEFAULT_LOOKBACK_DAYS), "A", "A", <<>>, {})
        IN  /\ dfsStack[1].value \subseteq cycles
            /\ dfsStack[1].value = {} <=> cycles = {}

\* C18: detect_vote_ring terminates on every finite vote graph, complete
\* graphs and graphs with self-loops and 2-cycles included: the search never
\* revisits a user on the current path, its recursion depth is bounded, and
\* it always ends with either a cycle or no result.
C18_VoteRingSearchTerminates ==
    /\ [](NoRevisitOnPath /\ DepthBounded)
    /\ <>RingSearchDone

\* the case of C18: the search ran through the dead-end graph, which is dense
\* and has self-votes and mutual votes, and ended without a result
C18_DenseGraphExhausted ==
    /\ voteGraph = RowsOf(DeadEndEdges)
    /\ RingSearchDone
    /\ dfsStack[1].value = {}


(***************************************************************************)
(* The trust score of a user the detectors know.  The user's row exists;   *)
(* its mastery, fact-check, answer, vote and interaction history is the    *)
(* one held in the trust variables, and its abuseFlags relation holds the  *)
(* user's rows of db.abuse_flag.                                           *)
(***************************************************************************)
\* user.abuseFlags with "where": {"resolved": False}
AbuseFlagsOfUser(user_id) ==
    UnresolvedFlags(SelectSeq(abuseFlags, LAMBDA f : f.userId = user_id))

trust_score_of_known_user(user_id) ==
    LET components ==
            [mastery_reliability |-> calculate_mastery_reliability(masteryRecords),
             nli_track_record |-> calculate_nli_track_record(factCheckLog),
             community_validation |-> calculate_community_validation(answers),
             account_age_trust |-> calculate_account_age_trust(accountAgeDays),
             interaction_entropy |-> calculate_interaction_entropy(interactionRows),
             vote_pattern_score |-> calculate_vote_pattern_score(userVotes),
             similarity_flags |-> calculate_similarity_penalty(user_id),
             abuse_flags |-> calculate_abuse_penalty(AbuseFlagsOfUser(user_id)),
             ip_clustering_risk |-> calculate_ip_clustering_risk(user_id)]
        final_score == WeightedSum(components)
    IN  [score |-> final_score, components |-> components,
         tier |-> get_trust_tier(final_score)]

CalculateTrustScoreOfKnownUser(user_id) ==
    /\ trustResult' = [user_id |-> user_id] @@ trust_score_of_known_user(user_id)
    /\ UNCHANGED otherThanTrust
    /\ UNCHANGED <<masteryRecords, factCheckLog, answers, accountAgeDays,
                   interactionRows, userVotes, userAbuseFlags>>

TrustDetectorsNext ==
    \/ \E user_id \in {"D", "E"} : LogUserActivity(user_id, "10.0.0.1")
    \/ AgeAccount
    \/ AnalyzeSockPuppets("A")
    \/ \E text \in Texts :
          CheckSimilarity([id |-> "c3", type |-> "answer", owner |-> "X"], text, FALSE)
    \/ FlagDuplicateContent
    \/ FlagSockPuppets
    \/ \E user_id \in {"A", "X"} : CalculateTrustScoreOfKnownUser(user_id)

InitTrustDetectors == FlagInit /\ TrustInit /\ TierIdle /\ StoreUp /\ DfsIdle /\ ExtIdle

SpecTrustDetectors == InitTrustDetectors /\ [][TrustDetectorsNext]_vars

\* the step is a calculate_trust_score call that returned for this user
IsTrustCallFor(user_id) ==
    /\ trustResult' # trustResult
    /\ trustResult'.user_id = user_id

\* the Similarity Engine's verdict on the user's content was stored as a flag
HasSimilarityFlag(user_id) ==
    \E flag \in FlagsOfType("DUPLICATE_CONTENT") : flag.userId = user_id

\* the risk analyze_sock_puppets reports for the user on the current store
SockPuppetRisk(user_id) == analyze_sock_puppets(user_id, IP_REUSE_DAYS).risk_score

\* C19: the trust score depends on the similarity and clustering detectors:
\* similarity_flags is below 1.0 for a user whose content the Similarity
\* Engine flagged, ip_clustering_risk is below 1.0 for a user for whom
\* analyze_sock_puppets reports a risk above 0, and both are 1.0 only when
\* the respective detector reports nothing.
C19_TrustFollowsDetectors ==
    [][\A user_id \in {"A", "X"} :
          IsTrustCallFor(user_id) =>
             /\ RLt(trustResult'.components.similarity_flags, RInt(1))
                   <=> HasSimilarityFlag(user_id)
             /\ RLt(trustResult'.components.ip_clustering_risk, RInt(1))
                   <=> RLt(RInt(0), SockPuppetRisk(user_id))]_vars

\* the case of C19: a trust score was returned for a user whose content is
\* flagged as a duplicate, or for a user with a positive sock-puppet risk
C19_TrustOfFlaggedUser ==
    \/ trustResult.user_id = "X" /\ HasSimilarityFlag("X")
    \/ trustResult.user_id = "A" /\ RLt(RInt(0), SockPuppetRisk("A"))


(***************************************************************************)
(* The detectors side by side: what a detector call writes                 *)
(***************************************************************************)
DetectorsNext ==
    \/ AnalyzeUserVoting("A")
    \/ AnalyzeContentVoting(ContentOf["A"])
    \/ \E user_id \in {None, "A"} : DetectIpClusters(user_id)
    \/ AnalyzeSockPuppets("A")
    \/ \E content \in {c \in SimContents : c.id \in {"c1", "c3"}} :
          \E text \in Texts, auto_store \in BOOLEAN :
             CheckSimilarity(content, text, auto_store)

InitDetectors == FlagInit /\ TrustInit /\ TierIdle /\ StoreUp /\ DfsIdle /\ ExtIdle

SpecDetectors == InitDetectors /\ [][DetectorsNext]_vars

\* every table but the fingerprints
TablesButFingerprints ==
    <<voteGraph, activityLog, answerRows, abuseFlags, masteryRecords, factCheckLog,
      answers, accountAgeDays, interactionRows, userVotes, userAbuseFlags>>

\* the step is a check_similarity call that was asked to store and found no
\* duplicate
IsStoringCheck ==
    /\ simReport' # simReport
    /\ HasSimReport'
    /\ simReport'.auto_store
    /\ ~simReport'.is_duplicate

\* the fingerprint rows of the checked content
OwnFingerprints(rows, report) ==
    {row \in rows : row.contentId = report.content_id
                    /\ row.contentType = report.content_type}

\* the fingerprint table changed by one upsert of the checked content's row:
\* the other rows are the same, and the content has one row, with the new hash
IsOneOwnUpsert ==
    /\ contentEmbeddings' \ OwnFingerprints(contentEmbeddings', simReport')
          = contentEmbeddings \ OwnFingerprints(contentEmbeddings, simReport')
    /\ Cardinality(OwnFingerprints(contentEmbeddings', simReport')) = 1
    /\ \A row \in OwnFingerprints(contentEmbeddings', simReport') :
          row.contentHash = simReport'.content_hash

\* C20: the detectors are read-only apart from one write: analyze_user_voting,
\* analyze_content_voting, detect_ip_clusters and analyze_sock_puppets leave
\* the whole store unchanged, and check_similarity writes one upsert of the
\* checked content's own fingerprint exactly when autoStore=true and the
\* report is not a duplicate; otherwise the fingerprint store is unchanged.
C20_DetectorsOnlyStoreOwnFingerprint ==
    [][/\ UNCHANGED TablesButFingerprints
       /\ IF IsStoringCheck THEN IsOneOwnUpsert
          ELSE UNCHANGED contentEmbeddings]_vars

\* the case of C20: every detector has returned, and the last check stored
\* the checked content's fingerprint next to another content's
C20_FingerprintStored ==
    /\ HasVoteReport
    /\ HasIpReport
    /\ HasSimReport
    /\ simReport.auto_store
    /\ ~simReport.is_duplicate
    /\ Cardinality(OwnFingerprints(contentEmbeddings, simReport)) = 1
    /\ Cardinality(contentEmbeddings) > 1


(***************************************************************************)
(* middleware/rate_limit.py: RateLimiter                                   *)
(***************************************************************************)
CLEANUP_INTERVAL == 300     \* "if now - self.last_cleanup < 300: return"
CLEANUP_RETENTION == 3600   \* "if now - ts < 3600"

\* the fixed (max_requests, window) each key is used with: a window shorter
\* and a window longer than the retention of the cleanup
RateConfig == [k1 |-> [max_requests |-> 2, window |-> 60],
               k2 |-> [max_requests |-> 1, window |-> 7200]]

\* the clock is explored in steps of FineStep seconds during the first
\* FineSeconds seconds of every hour, and in steps of one hour, up to MaxTime
FineStep == 30
FineSeconds == 90
HourStep == 3600
MaxTime == 7290

KeepSeq(seq, Test(_)) == SelectSeq(seq, Test)

\* self.requests after _cleanup_old_requests() at time now; a key deleted
\* from the defaultdict reads as the empty list again
cleanup_old_requests(requests, last_cleanup, now) ==
    IF now - last_cleanup < CLEANUP_INTERVAL
    THEN [requests |-> requests, last_cleanup |-> last_cleanup]
    ELSE [requests |-> [key \in RateKeys |->
                           KeepSeq(requests[key], LAMBDA ts : now - ts < CLEANUP_RETENTION)],
          last_cleanup |-> now]

\* a variant that keeps the timestamp on the edge of the window
InWindow_closed(ts, now, window) == ts >= now - window

\* "cutoff = now - window ... if ts > cutoff"
InWindow(ts, now, window) == ts > now - window

MinOfSeq(seq) == CHOOSE m \in Range(seq) : \A x \in Range(seq) : m <= x

\* RateLimiter.is_allowed(key, max_requests, window) at the current time
IsAllowed(key) ==
    LET now == rlNow
        max_requests == RateConfig[key].max_requests
        window == RateConfig[key].window
        cleaned == cleanup_old_requests(rlRequests, rlLastCleanup, now)
        request_times == KeepSeq(cleaned.requests[key],
                                 LAMBDA ts : InWindow(ts, now, window))
    IN  /\ rlLastCleanup' = cleaned.last_cleanup
        /\ IF Len(request_times) >= max_requests
           THEN /\ rlRequests' = [cleaned.requests EXCEPT ![key] = request_times]
                /\ rlResult' = [key |-> key, allowed |-> FALSE,
                                retry_after |->
                                    (window - (now - MinOfSeq(request_times))) + 1]
                /\ UNCHANGED rlGranted
           ELSE /\ rlRequests' = [cleaned.requests EXCEPT
                                     ![key] = Append(request_times, now)]
                /\ rlResult' = [key |-> key, allowed |-> TRUE, retry_after |-> 0]
                /\ rlGranted' = [rlGranted EXCEPT ![key] = Append(@, now)]
        /\ UNCHANGED rlNow
        /\ UNCHANGED otherThanRate

\* time passes; the caller's record forgets the calls that left the key's window
RateTick(seconds) ==
    /\ rlNow + seconds <= MaxTime
    /\ seconds = FineStep => (rlNow % HourStep) + seconds <= FineSeconds
    /\ rlNow' = rlNow + seconds
    /\ rlResult' = NoRateResult
    /\ rlGranted' = [key \in RateKeys |->
                        KeepSeq(rlGranted[key],
                                LAMBDA ts : ts > rlNow' - RateConfig[key].window)]
    /\ UNCHANGED <<rlRequests, rlLastCleanup>>
    /\ UNCHANGED otherThanRate

RateNext ==
    \/ \E key \in RateKeys : IsAllowed(key)
    \/ \E seconds \in {FineStep, HourStep} : RateTick(seconds)

RateInit == RlIdle

\* nothing but the subsystem under study is in use
CoreIdle ==
    /\ TrustIdle /\ TierIdle /\ VoteIdle /\ SimIdle /\ IPIdle /\ FlagIdle /\ StoreUp /\ DfsIdle
    /\ AsyncIdle

InitRate == RateInit /\ CoreIdle /\ CosIdle /\ FnIdle

SpecRate == InitRate /\ [][RateNext]_vars

\* the allowed calls of the key whose timestamps lie in the last window seconds
GrantsInWindow(key) ==
    Len(KeepSeq(rlGranted[key], LAMBDA ts : ts > rlNow - RateConfig[key].window))

\* the limit holds for the key, and a denial comes with a positive retry_after
\* and only when the window is full
RateLimitHolds(key) ==
    /\ GrantsInWindow(key) <= RateConfig[key].max_requests
    /\ (rlResult.key = key /\ ~rlResult.allowed) =>
          /\ rlResult.retry_after > 0
          /\ GrantsInWindow(key) = RateConfig[key].max_requests

\* C21: for a RateLimiter used with a fixed (max_requests >= 1, window) per
\* key, the allowed requests of a key inside the last window seconds never
\* exceed max_requests: the first max_requests calls inside the window are
\* allowed, every further one is denied with retry_after > 0, and calls on
\* other keys do not affect the key's count.
C21_RateLimitNeverExceeded == \A key \in RateKeys : RateLimitHolds(key)

\* the same for the key whose window is not longer than the cleanup's retention
RateLimitHoldsForShortWindow == RateLimitHolds("k1")

\* a call on the short-window key was denied after the other key was used and
\* a cleanup ran
ShortWindowDenied ==
    /\ rlResult.key = "k1"
    /\ ~rlResult.allowed
    /\ rlLastCleanup > 0
    /\ rlGranted["k2"] # <<>>


(***************************************************************************)
(* Floating point.  A Python float is a binary floating-point number:      *)
(* every operation returns the exact result rounded to the nearest         *)
(* representable value, ties to even; a result too large is inf, a result  *)
(* too small is 0.0, and inf / inf is nan.  The format explored here has   *)
(* FloatBits significant bits and exponents FloatMinExp..FloatMaxExp in    *)
(* place of the 53 bits and the exponents of a double.  A finite nonzero   *)
(* float is m * 2^e with 2^(FloatBits-1) <= m < 2^FloatBits.               *)
(***************************************************************************)
FloatBits == 4
FloatMaxExp == 4
FloatMinExp == 0 - 2 * FloatMaxExp

FZero == [k |-> "zero", m |-> 0, e |-> 0]
FInf == [k |-> "inf", m |-> 0, e |-> 0]
FNaN == [k |-> "nan", m |-> 0, e |-> 0]
FNum(m, e) == [k |-> "num", m |-> m, e |-> e]

\* the number of bits of a positive integer
BitLen(n) == CHOOSE b \in 1..30 : 2^(b - 1) <= n /\ n < 2^b

\* the float nearest to n * 2^e, for an integer n >= 0
FRound(n, e) ==
    IF n = 0 THEN FZero
    ELSE LET shift == BitLen(n) - FloatBits
         IN  IF shift <= 0
             THEN LET e2 == e + shift
                  IN  IF e2 > FloatMaxExp THEN FInf
                      ELSE IF e2 < FloatMinExp THEN FZero
                      ELSE FNum(n * 2^(0 - shift), e2)
             ELSE LET q == n \div 2^shift
                      r == n % 2^shift
                      half == 2^(shift - 1)
                      up == r > half \/ (r = half /\ q % 2 = 1)
                      q2 == IF up THEN q + 1 ELSE q
                      m == IF q2 = 2^FloatBits THEN 2^(FloatBits - 1) ELSE q2
                      e2 == IF q2 = 2^FloatBits THEN e + shift + 1 ELSE e + shift
                  IN  IF e2 > FloatMaxExp THEN FInf
                      ELSE IF e2 < FloatMinExp THEN FZero
                      ELSE FNum(m, e2)

\* x * y, for floats that are not negative
FMul(x, y) ==
    IF x.k = "nan" \/ y.k = "nan" THEN FNaN
    ELSE IF x.k = "inf" \/ y.k = "inf"
    THEN IF x.k = "zero" \/ y.k = "zero" THEN FNaN ELSE FInf
    ELSE IF x.k = "zero" \/ y.k = "zero" THEN FZero
    ELSE FRound(x.m * y.m, x.e + y.e)

\* x + y, for floats that are not negative
FAdd(x, y) ==
    IF x.k = "nan" \/ y.k = "nan" THEN FNaN
    ELSE IF x.k = "inf" \/ y.k = "inf" THEN FInf
    ELSE IF x.k = "zero" THEN y
    ELSE IF y.k = "zero" THEN x
    ELSE LET e == IF x.e < y.e THEN x.e ELSE y.e
         IN  FRound(x.m * 2^(x.e - e) + y.m * 2^(y.e - e), e)

\* floor of the square root of a natural number
ISqrt(n) == CHOOSE r \in 0..2^(FloatBits + 4) : r * r <= n /\ n < (r + 1) * (r + 1)

\* math.sqrt(x): the root is computed with spare bits and a last bit that is
\* set when the root is not exact, then rounded once
FSqrt(x) ==
    IF x.k # "num" THEN x
    ELSE LET odd == x.e % 2 # 0
             m == IF odd THEN 2 * x.m ELSE x.m
             e == IF odd THEN x.e - 1 ELSE x.e
             scaled == m * 2^(2 * (FloatBits + 1))
             root == ISqrt(scaled)
             inexact == IF root * root = scaled THEN 0 ELSE 1
         IN  FRound(2 * root + inexact, (e \div 2) - (FloatBits + 1) - 1)

\* x / y for a divisor that is not 0.0, with spare bits and an inexact bit
FDiv(x, y) ==
    IF x.k = "nan" \/ y.k = "nan" THEN FNaN
    ELSE IF x.k = "inf" THEN IF y.k = "inf" THEN FNaN ELSE FInf
    ELSE IF y.k = "inf" THEN FZero
    ELSE IF x.k = "zero" THEN FZero
    ELSE LET scaled == x.m * 2^(FloatBits + 2)
             q == scaled \div y.m
             inexact == IF scaled % y.m = 0 THEN 0 ELSE 1
         IN  FRound(2 * q + inexact, x.e - y.e - (FloatBits + 2) - 1)

FOne == FNum(2^(FloatBits - 1), 1 - FloatBits)

\* sum(...) of a generator: starts from the int 0 and adds from the left
RECURSIVE FSumFrom(_, _)
FSumFrom(acc, terms) ==
    IF terms = <<>> THEN acc ELSE FSumFrom(FAdd(acc, Head(terms)), Tail(terms))

FSum(terms) == FSumFrom(FZero, terms)

\* a variant that uses the squared magnitude where both vectors are the same list
float_cosine_similarity_exact_self(a, b) ==
    LET both == IF Len(a) < Len(b) THEN Len(a) ELSE Len(b)
        dot_product == FSum([i \in 1..both |-> FMul(a[i], b[i])])
        sum_a == FSum([i \in 1..Len(a) |-> FMul(a[i], a[i])])
        sum_b == FSum([i \in 1..Len(b) |-> FMul(b[i], b[i])])
    IN  IF sum_a.k = "zero" \/ sum_b.k = "zero" THEN FZero
        ELSE IF a = b /\ sum_a.k = "num" THEN FOne
        ELSE FDiv(dot_product, FMul(FSqrt(sum_a), FSqrt(sum_b)))

\* cosine_similarity on floats.  zip stops at the shorter list.  A zero
\* product of the magnitudes makes the division raise ZeroDivisionError,
\* which the except clause turns into 0.0.
float_cosine_similarity(a, b) ==
    LET both == IF Len(a) < Len(b) THEN Len(a) ELSE Len(b)
        dot_product == FSum([i \in 1..both |-> FMul(a[i], b[i])])
        magnitude_a == FSqrt(FSum([i \in 1..Len(a) |-> FMul(a[i], a[i])]))
        magnitude_b == FSqrt(FSum([i \in 1..Len(b) |-> FMul(b[i], b[i])]))
        product == FMul(magnitude_a, magnitude_b)
    IN  IF magnitude_a.k = "zero" \/ magnitude_b.k = "zero" THEN FZero
        ELSE IF product.k = "zero" THEN FZero
        ELSE FDiv(dot_product, product)

\* the finite floats that are not negative
Floats ==
    {FZero} \cup {FNum(m, e) : m \in 2^(FloatBits - 1)..(2^FloatBits - 1),
                               e \in FloatMinExp..FloatMaxExp}

\* the vectors explored: one or two components
FloatVectors == {<<x>> : x \in Floats} \cup {<<x, y>> : x \in Floats, y \in Floats}

IsZeroVector(v) == \A i \in DOMAIN v : v[i] = FZero

\* the arguments explored: a vector with itself, or with an all-zero vector
CosineInit ==
    /\ cosA \in FloatVectors
    /\ cosB \in {cosA, <<FZero>>, <<FZero, FZero>>}
    /\ cosOut = [k |-> None]

CosineSimilarity ==
    /\ cosOut.k = None
    /\ cosOut' = float_cosine_similarity(cosA, cosB)
    /\ UNCHANGED <<cosA, cosB>>
    /\ UNCHANGED otherThanCos

\* the arguments are handed over in the other order
CosineSimilaritySwapped ==
    /\ cosOut.k = None
    /\ cosOut' = float_cosine_similarity(cosB, cosA)
    /\ UNCHANGED <<cosA, cosB>>
    /\ UNCHANGED otherThanCos

CosineNext ==
    \/ CosineSimilarity
    \/ CosineSimilaritySwapped

InitCosine == CosineInit /\ CoreIdle /\ RlIdle /\ FnIdle

SpecCosine == InitCosine /\ [][CosineNext]_vars

\* C22: cosine_similarity(a, a) equals 1.0 for every nonzero vector a, and
\* cosine_similarity(a, b) equals 0, never an error or NaN, whenever a or b
\* is the all-zero vector.
C22_CosineOfSelfIsOne ==
    cosOut.k # None =>
        IF IsZeroVector(cosA) \/ IsZeroVector(cosB) THEN cosOut = FZero
        ELSE cosA = cosB => cosOut = FOne

\* the part of C22 about the all-zero vector
CosineWithZeroVectorIsZero ==
    (cosOut.k # None /\ (IsZeroVector(cosA) \/ IsZeroVector(cosB))) => cosOut = FZero

\* a nonzero vector was compared with an all-zero vector
CosineWithZeroVectorReached ==
    /\ cosOut = FZero
    /\ ~IsZeroVector(cosA)
    /\ IsZeroVector(cosB)


(***************************************************************************)
(* calculate_account_age_trust applied to an account age                   *)
(***************************************************************************)
MaxAgeDays == 400       \* the ages explored: 0..MaxAgeDays days

Called(value) == [done |-> TRUE, value |-> value]

AgeTrustInit ==
    /\ fnArg \in 0..MaxAgeDays
    /\ fnOut = NotCalled

\* age_days = (datetime.now() - created_at).days, then the formula
CalculateAccountAgeTrust ==
    /\ fnOut = NotCalled
    /\ fnOut' = Called(calculate_account_age_trust(fnArg))
    /\ UNCHANGED fnArg
    /\ UNCHANGED otherThanFn

AgeTrustNext == CalculateAccountAgeTrust

InitAgeTrust == AgeTrustInit /\ CoreIdle /\ RlIdle /\ CosIdle

SpecAgeTrust == InitAgeTrust /\ [][AgeTrustNext]_vars

\* 1 - 1/(1 + ageDays/30)
AgeTrustFormula(age_days) ==
    RSub(RInt(1), RDiv(RInt(1), RAdd(RInt(1), Rat(age_days, 30))))

\* |x - y| <= eps
RWithin(x, y, eps) == RLe(RSub(x, y), eps) /\ RLe(RSub(y, x), eps)

\* C23: calculate_account_age_trust returns 1 - 1/(1 + ageDays/30) for every
\* account age ageDays >= 0: exactly 0.0 at 0 days, about 0.923 (within 0.01)
\* at 365 days, non-decreasing in ageDays and always below 1.0.
C23_AccountAgeTrustIsAsymptotic ==
    fnOut.done =>
        /\ fnOut.value = AgeTrustFormula(fnArg)
        /\ fnArg = 0 => fnOut.value = RInt(0)
        /\ fnArg = 365 => RWithin(fnOut.value, Rat(923, 1000), Rat(1, 100))
        /\ RLe(fnOut.value, calculate_account_age_trust(fnArg + 1))
        /\ RLt(fnOut.value, RInt(1))

\* the case of C23: the trust of a one-year-old account was computed
C23_OneYearOldAccount == fnOut.done /\ fnArg = 365


(***************************************************************************)
(* The rings detect_vote_ring reports                                      *)
(***************************************************************************)
\* the states a vote between two users is explored in: none, an upvote in
\* the window, an upvote older than the window, a downvote in the window
EdgeStates == {"none", "fresh", "stale", "down"}

\* the votes between different users of RingUsers, and A's vote for A
RingEdges == {e \in RingUsers \X RingUsers : e[1] # e[2]} \cup {<<"A", "A">>}

RowOfEdge(e, state) ==
    IF state = "fresh" THEN {VoteRow(e[1], e[2], "UPVOTE", 0)}
    ELSE IF state = "stale"
    THEN {VoteRow(e[1], e[2], "UPVOTE", OldVoteDays * SecondsPerDay)}
    ELSE IF state = "down" THEN {VoteRow(e[1], e[2], "DOWNVOTE", 0)}
    ELSE {}

\* the users of the simple ring of n users that starts at "A"
RingOrder(n) == <<"A">> \o SubSeq(ChainUsers, 1, n - 1)

\* the upvotes of the simple ring of n users: each votes for the next, the
\* last for "A"
SimpleRing(n) ==
    LET order == RingOrder(n)
    IN  RowsOf({<<order[i], order[(i % n) + 1]>> : i \in 1..n})

MaxRingUsers == 12      \* the simple rings explored have 3..MaxRingUsers users

RingReportInit ==
    /\ \/ \E states \in [RingEdges -> EdgeStates] :
             voteGraph = UNION {RowOfEdge(e, states[e]) : e \in RingEdges}
       \/ \E n \in 3..MaxRingUsers : voteGraph = SimpleRing(n)
    /\ voteReport = NoVoteReport

RingReportNext == AnalyzeUserVoting("A")

InitRingReport == RingReportInit /\ TrustIdle /\ TierIdle /\ SimIdle /\ IPIdle /\ FlagIdle /\ StoreUp /\ DfsIdle /\ ExtIdle

SpecRingReport == InitRingReport /\ [][RingReportNext]_vars

\* the cycles of the vote rings in the report
ReportedCycles ==
    IF HasVoteReport
    THEN {voteReport.patterns[i].users_involved :
             i \in {j \in DOMAIN voteReport.patterns :
                       voteReport.patterns[j].pattern_type = "VOTE_RING"}}
    ELSE {}

\* an upvote of the last lookback_days from voter to target is stored
HasFreshUpvote(voter, target) ==
    \E v \in voteGraph :
        /\ v.voterId = voter
        /\ v.targetUserId = target
        /\ v.voteType = "UPVOTE"
        /\ CreatedSince(v, DEFAULT_LOOKBACK_DAYS * SecondsPerDay)

\* the cycle is a directed cycle of in-window upvotes from the subject back to
\* the subject through pairwise different users, at least 3 and at most most
IsGenuineRing(cycle, subject, most) ==
    LET users == SubSeq(cycle, 1, Len(cycle) - 1)
    IN  /\ Len(cycle) >= 2
        /\ cycle[1] = subject
        /\ cycle[Len(cycle)] = subject
        /\ \A i \in 1..(Len(cycle) - 1) : HasFreshUpvote(cycle[i], cycle[i + 1])
        /\ Distinct(users)
        /\ Len(users) >= VOTE_RING_MIN_SIZE
        /\ Len(users) <= most

\* C24: every cycle reported by detect_vote_ring is a genuine directed cycle
\* of in-window upvotes that starts and ends at the subject, visits no other
\* user twice and has at least 3 and at most 10 distinct users; self-votes
\* and 2-cycles are never reported, nor is a ring of more than 10 users.
C24_ReportedRingIsGenuine ==
    \A cycle \in ReportedCycles : IsGenuineRing(cycle, voteReport.subject, MAX_CYCLE_PATH)

\* the same with one user more allowed
ReportedRingIsGenuineUpToEleven ==
    \A cycle \in ReportedCycles :
        IsGenuineRing(cycle, voteReport.subject, MAX_CYCLE_PATH + 1)

\* a ring was reported although A also votes for itself and mutually with B
RingReportedAmongShortCycles ==
    /\ ReportedCycles # {}
    /\ HasFreshUpvote("A", "A")
    /\ HasFreshUpvote("A", "B")
    /\ HasFreshUpvote("B", "A")

\* the simple ring of twelve users was analysed and no ring was reported
TwelveRingNotReported ==
    /\ HasVoteReport
    /\ voteGraph = SimpleRing(MaxRingUsers)
    /\ ReportedCycles = {}


(***************************************************************************)
(* The window of a cluster's interaction count                             *)
(***************************************************************************)
\* "lookback_days: int = 30" of count_interactions
INTERACTION_LOOKBACK_DAYS == 30

\* C25: the interaction count of a cluster counts the votes exchanged between
\* each pair of its members over a 30-day window, whatever lookbackDays groups
\* the activity logs: an interaction older than the 7-day lookback of
\* analyze_sock_puppets, but younger than 30 days, is counted.
C25_InteractionsCountedOverThirtyDays ==
    HasIpReport =>
        \A cluster \in ipReport.clusters :
            cluster.interaction_count
                = MemberVotes(cluster.users, INTERACTION_LOOKBACK_DAYS)

\* the count as the cluster loop takes it: over the lookback of the logs
InteractionsCountedOverLogLookback ==
    HasIpReport =>
        \A cluster \in ipReport.clusters :
            cluster.interaction_count = MemberVotes(cluster.users, IP_REUSE_DAYS)

\* a cluster was reported whose members exchanged a vote that is older than
\* the lookback of the logs and younger than 30 days
ClusterWithOlderVoteReported ==
    /\ HasIpReport
    /\ \E cluster \in ipReport.clusters :
          MemberVotes(cluster.users, IP_REUSE_DAYS)
              < MemberVotes(cluster.users, INTERACTION_LOOKBACK_DAYS)

(***************************************************************************)
(* The fingerprint of an edited content item                               *)
(***************************************************************************)
\* the fingerprints the table holds for a content item
FingerprintsOf(content_id, content_type) ==
    {row \in contentEmbeddings :
        row.contentId = content_id /\ row.contentType = content_type}

\* the reported call was made with auto_store for a content item whose
\* submitted text matches no fingerprint of another content item
EditDuplicatesNoOther ==
    /\ HasSimReport
    /\ simReport.auto_store
    /\ \A m \in simReport.matches : m.content_id = simReport.content_id

\* C26: the table holds at most one fingerprint per (content id, content
\* type), updated on edit: after check_similarity with auto_store for a text
\* that duplicates no other content item, the stored fingerprint of the
\* content item carries the hash and the embedding of the submitted text.
C26_FingerprintFollowsEdit ==
    /\ \A content \in SimContents :
          Cardinality(FingerprintsOf(content.id, content.type)) <= 1
    /\ EditDuplicatesNoOther =>
          \E row \in FingerprintsOf(simReport.content_id, simReport.content_type) :
             /\ row.contentHash = simReport.content_hash
             /\ row.embedding = EmbeddingOfText[simReport.text]

\* at most one fingerprint per (content id, content type)
OneFingerprintPerContent ==
    \A content \in SimContents :
        Cardinality(FingerprintsOf(content.id, content.type)) <= 1

\* the fingerprint follows the edit when the submitted text is no duplicate of
\* the content item's own stored fingerprint either
FingerprintFollowsUnlikeEdit ==
    (EditDuplicatesNoOther /\ ~simReport.is_duplicate) =>
        \E row \in FingerprintsOf(simReport.content_id, simReport.content_type) :
           /\ row.contentHash = simReport.content_hash
           /\ row.embedding = EmbeddingOfText[simReport.text]

\* an edit was stored: the only match of the submitted text was the content
\* item's own earlier fingerprint, of another hash
UnlikeEditStored ==
    /\ EditDuplicatesNoOther
    /\ ~simReport.is_duplicate
    /\ simReport.matches # {}
    /\ \E row \in FingerprintsOf(simReport.content_id, simReport.content_type) :
          row.contentHash = simReport.content_hash

(***************************************************************************)
(* calculate_vote_pattern_score over vote distributions                    *)
(***************************************************************************)
VoteTargets == {"ans1", "ans2", "ans3"}
MaxVotesPerTarget == 6

\* upvotes + downvotes, by the answer voted on
VoteDistributions == [VoteTargets -> 0..MaxVotesPerTarget]

VotePatternInit ==
    /\ fnArg \in VoteDistributions
    /\ fnOut = NotCalled

CalculateVotePatternScore ==
    /\ ~fnOut.done
    /\ fnOut' = Called(calculate_vote_pattern_score(fnArg))
    /\ UNCHANGED fnArg
    /\ UNCHANGED otherThanFn

VotePatternNext == CalculateVotePatternScore

InitVotePattern == VotePatternInit /\ CoreIdle /\ RlIdle /\ CosIdle

SpecVotePattern == InitVotePattern /\ [][VotePatternNext]_vars

TotalVotes(votes) == SumFun(votes, DOMAIN votes)
VotedTargets(votes) == {a \in DOMAIN votes : votes[a] > 0}

\* all votes are on one target
IsConcentrated(votes) == Cardinality(VotedTargets(votes)) = 1

\* the votes are spread evenly over several targets
IsEvenSpread(votes) ==
    /\ Cardinality(VotedTargets(votes)) >= 2
    /\ \A a, b \in VotedTargets(votes) : votes[a] = votes[b]

\* C27: for a fixed number of at least 5 votes, all votes on one target give a
\* strictly lower score than the same number of votes spread evenly over
\* several targets; with fewer than 5 votes the score is 1.0.
C27_ConcentratedVotesScoreLower ==
    fnOut.done =>
        /\ TotalVotes(fnArg) < 5 => fnOut.value = RInt(1)
        /\ (TotalVotes(fnArg) >= 5 /\ IsConcentrated(fnArg)) =>
              \A spread \in VoteDistributions :
                  (IsEvenSpread(spread) /\ TotalVotes(spread) = TotalVotes(fnArg)) =>
                      RLt(fnOut.value, calculate_vote_pattern_score(spread))

\* what the score does: 1.0 with fewer than 5 votes, 1.0 with all votes on
\* one target, 1.0 with an even spread, and below 1.0 only for an uneven
\* spread over several targets
VotePatternScoreOfEqualCounts ==
    fnOut.done =>
        /\ TotalVotes(fnArg) < 5 => fnOut.value = RInt(1)
        /\ (TotalVotes(fnArg) >= 5 /\ (IsConcentrated(fnArg) \/ IsEvenSpread(fnArg)))
              => fnOut.value = RInt(1)
        /\ (TotalVotes(fnArg) >= 5 /\ ~IsConcentrated(fnArg) /\ ~IsEvenSpread(fnArg))
              => RLt(fnOut.value, RInt(1))

\* six votes on one target were scored, which can be spread evenly over two
\* and over three targets
SixVotesOnOneTargetScored ==
    /\ fnOut.done
    /\ IsConcentrated(fnArg)
    /\ TotalVotes(fnArg) = 6

(***************************************************************************)
(* The consistency of a TrustResult                                        *)
(***************************************************************************)
\* the score is the weighted sum of the result's own components and the tier
\* is the tier of the result's own score
IsConsistentResult(result) ==
    /\ result.score = WeightedSum(result.components)
    /\ result.tier = get_trust_tier(result.score)

\* C28: every TrustResult is internally consistent, on the found-user path
\* and on the not-found path: its score is the weighted sum of its nine
\* components under COMPONENT_WEIGHTS and its tier is get_trust_tier(score).
C28_TrustResultIsConsistent ==
    HasTrustResult => IsConsistentResult(trustResult)

\* the result of a user that was found is consistent
FoundUserResultIsConsistent ==
    (HasTrustResult /\ trustResult.user_id = "u1") => IsConsistentResult(trustResult)

\* a user with a history over several tables was found and scored
FoundUserWithHistoryScored ==
    /\ HasTrustResult
    /\ trustResult.user_id = "u1"
    /\ HistorySize >= 3
    /\ trustResult.tier # "Novice"

(***************************************************************************)
(* check_similarity: two calls in flight                                   *)
(*                                                                         *)
(* A call gives up control at each store call it awaits: the find_many of  *)
(* find_similar_content and the upsert of store_content_embedding.  The    *)
(* steps of two calls interleave freely in between.                        *)
(***************************************************************************)
SimCallIds == {1, 2}

\* the two content items: the same type, different owners
ContentOfCall ==
    <<[id |-> "c1", type |-> "answer", owner |-> "X"],
      [id |-> "c2", type |-> "answer", owner |-> "Y"]>>

NoVerdict == [recommendation |-> None]

\* a call that has computed its hash and embedding and awaits find_many
NewSimCall(content, text) ==
    [content |-> content, text |-> text, auto_store |-> TRUE,
     pc |-> "search", matches |-> {}, verdict |-> NoVerdict]

\* a fingerprint stored by an earlier, completed call for a third item
EarlierFingerprint(text) ==
    [contentId |-> "c3", contentType |-> "answer", userId |-> "X",
     embedding |-> EmbeddingOfText[text], contentHash |-> HashOfText[text],
     createdAt |-> 0]

ConcInit ==
    /\ contentEmbeddings \in {{}} \cup {{EarlierFingerprint(t)} : t \in Texts}
    /\ simNow = 0
    /\ simReport = NoSimReport
    /\ \E t1 \in Texts, t2 \in Texts :
          /\ HashOfText[t1] = HashOfText[t2]
          /\ simCalls = [c \in SimCallIds |->
                            NewSimCall(ContentOfCall[c], IF c = 1 THEN t1 ELSE t2)]

otherThanConc ==
    <<trustVars, tierVars, voteVars, simNow, simReport, ipVars, flagVars, faultVars,
      dfsVars, rlVars, cosVars, fnVars, recalcVars>>

\* find_similar_content returns and the matches are analysed
SearchStep(c) ==
    LET call == simCalls[c]
        content_hash == HashOfText[call.text]
        embedding == EmbeddingOfText[call.text]
    IN  /\ call.pc = "search"
        /\ \E matches \in find_similar_content(embedding, content_hash, call.content.type,
                                               MATCH_LIMIT, SIM_LOOKBACK_DAYS) :
              LET verdict == ClassifyMatches(call.content.owner, matches)
              IN  simCalls' = [simCalls EXCEPT
                      ![c].matches = matches,
                      ![c].verdict = verdict,
                      ![c].pc = IF StoresFingerprint(call.auto_store, verdict)
                                THEN "store" ELSE "done"]
        /\ UNCHANGED contentEmbeddings
        /\ UNCHANGED otherThanConc

\* store_content_embedding's upsert returns and the report is returned
StoreStep(c) ==
    LET call == simCalls[c]
    IN  /\ call.pc = "store"
        /\ contentEmbeddings' =
              store_content_embedding(call.content.id, call.content.type,
                                      call.content.owner, EmbeddingOfText[call.text],
                                      HashOfText[call.text])
        /\ simCalls' = [simCalls EXCEPT ![c].pc = "done"]
        /\ UNCHANGED otherThanConc

ConcNext ==
    \/ \E c \in SimCallIds : SearchStep(c)
    \/ \E c \in SimCallIds : StoreStep(c)

InitConc ==
    /\ ConcInit
    /\ TrustIdle /\ TierIdle /\ VoteIdle /\ IPIdle /\ FlagIdle /\ StoreUp /\ DfsIdle
    /\ RlIdle /\ CosIdle /\ FnIdle /\ RecalcIdle

SpecConc == InitConc /\ [][ConcNext]_vars

\* the call returned ALLOW and its fingerprint is in the table
AllowedAndStored(c) ==
    /\ simCalls[c].pc = "done"
    /\ simCalls[c].verdict.recommendation = "ALLOW"
    /\ \E row \in contentEmbeddings :
          /\ row.contentId = simCalls[c].content.id
          /\ row.contentType = simCalls[c].content.type

\* no hash is stored for two content items of different owners
NoHashUnderTwoOwners ==
    \A r1, r2 \in contentEmbeddings :
        (r1.contentHash = r2.contentHash /\ r1.contentId # r2.contentId)
            => r1.userId = r2.userId

\* C29: when two check_similarity calls with auto_store for two content
\* items of the same type, from different owners, with identical normalized
\* text run concurrently, in any interleaving of their search and store
\* steps at most one of them returns ALLOW and stores its fingerprint, so the
\* table never holds the same hash for two content items of different owners.
C29_ConcurrentDuplicatesDetected ==
    /\ Cardinality({c \in SimCallIds : AllowedAndStored(c)}) <= 1
    /\ NoHashUnderTwoOwners

\* a call whose search runs after the other call has returned is reported a
\* duplicate whenever the other call stored its fingerprint
SearchAfterStoreFindsDuplicate ==
    [][\A c \in SimCallIds, d \in SimCallIds :
          (/\ c # d
           /\ simCalls[c].pc = "search"
           /\ simCalls'[c].pc # "search"
           /\ AllowedAndStored(d))
              => simCalls'[c].verdict.is_duplicate]_vars

\* one call ran to its end and stored before the other searched, and the
\* other was blocked
SerialCallsBlockedSecond ==
    \E c \in SimCallIds, d \in SimCallIds :
        /\ AllowedAndStored(d)
        /\ simCalls[c].pc = "done"
        /\ simCalls[c].verdict.recommendation = "BLOCK"
        /\ \E m \in simCalls[c].matches : m.content_id = simCalls[d].content.id

(***************************************************************************)
(* event_handlers.py: recalculate_trust_score handlers in flight           *)
(*                                                                         *)
(* EventBus.emit starts the handler as a task; the handler awaits          *)
(* calculate_trust_score, then the upsert of the snapshot, then the update *)
(* of the user's cached score.  Handlers started by different emits        *)
(* interleave at these awaits, and the user's history goes on changing.    *)
(***************************************************************************)
Handlers == {"h1", "h2"}

RecalcInit ==
    /\ TrustInit
    /\ trustSnapshots = {}
    /\ trustScoreCache = NoCache
    /\ recalcHandlers = [h \in Handlers |-> [pc |-> "idle"]]

otherThanRecalc ==
    <<trustVars, tierVars, voteVars, simVars, ipVars, flagVars, faultVars, dfsVars,
      rlVars, cosVars, fnVars, concVars>>

\* emit: asyncio.create_task(self._execute_handler(handler, event))
EmitEvent(h) ==
    /\ recalcHandlers[h].pc = "idle"
    /\ recalcHandlers' = [recalcHandlers EXCEPT ![h] = [pc |-> "compute"]]
    /\ UNCHANGED <<trustSnapshots, trustScoreCache>>
    /\ UNCHANGED otherThanRecalc

\* trust_result = await calculate_trust_score(user_id)
ComputeStep(h) ==
    /\ recalcHandlers[h].pc = "compute"
    /\ recalcHandlers' = [recalcHandlers EXCEPT
          ![h] = [pc |-> "upsert", trust_result |-> calculate_trust_score("u1")]]
    /\ UNCHANGED <<trustSnapshots, trustScoreCache>>
    /\ UNCHANGED otherThanRecalc

\* db.trust_score.upsert on userId: the score column of the row
upsert_trust_score(rows, user_id, score) ==
    IF \E row \in rows : row.userId = user_id
    THEN {IF row.userId = user_id THEN [row EXCEPT !.score = score] ELSE row : row \in rows}
    ELSE rows \cup {[userId |-> user_id, score |-> score]}

UpsertStep(h) ==
    /\ recalcHandlers[h].pc = "upsert"
    /\ trustSnapshots' =
          upsert_trust_score(trustSnapshots, "u1", recalcHandlers[h].trust_result.score)
    /\ recalcHandlers' = [recalcHandlers EXCEPT ![h].pc = "cache"]
    /\ UNCHANGED trustScoreCache
    /\ UNCHANGED otherThanRecalc

\* db.user.update: "trustScoreCache": trust_result.score
CacheStep(h) ==
    /\ recalcHandlers[h].pc = "cache"
    /\ trustScoreCache' = [set |-> TRUE, value |-> recalcHandlers[h].trust_result.score]
    /\ recalcHandlers' = [recalcHandlers EXCEPT ![h].pc = "done"]
    /\ UNCHANGED trustSnapshots
    /\ UNCHANGED otherThanRecalc

RecalcNext ==
    \/ RaiseAbuseFlag
    \/ \E h \in Handlers : EmitEvent(h)
    \/ \E h \in Handlers : ComputeStep(h)
    \/ \E h \in Handlers : UpsertStep(h)
    \/ \E h \in Handlers : CacheStep(h)

InitRecalc ==
    /\ RecalcInit
    /\ TierIdle /\ VoteIdle /\ SimIdle /\ IPIdle /\ FlagIdle /\ StoreUp /\ DfsIdle
    /\ RlIdle /\ CosIdle /\ FnIdle /\ ConcIdle

SpecRecalc == InitRecalc /\ [][RecalcNext]_vars

AllHandlersCompleted == \A h \in Handlers : recalcHandlers[h].pc = "done"

SnapshotsOf(user_id) == {row \in trustSnapshots : row.userId = user_id}

\* C30: when several recalculate_trust_score handlers for the same existing
\* user ran concurrently and all have completed without error, there is
\* exactly one trust snapshot row for the user and the user's cached trust
\* score equals the score stored in that snapshot.
C30_CacheEqualsSnapshot ==
    AllHandlersCompleted =>
        /\ Cardinality(SnapshotsOf("u1")) = 1
        /\ trustScoreCache.set
        /\ \A row \in SnapshotsOf("u1") : trustScoreCache.value = row.score

\* what holds: one snapshot row, and the snapshot and the cache each carry the
\* score some handler computed
OneSnapshotRowOfSomeHandler ==
    AllHandlersCompleted =>
        /\ Cardinality(SnapshotsOf("u1")) = 1
        /\ trustScoreCache.set
        /\ \E h \in Handlers : trustScoreCache.value = recalcHandlers[h].trust_result.score
        /\ \A row \in SnapshotsOf("u1") :
              \E h \in Handlers : row.score = recalcHandlers[h].trust_result.score

\* both handlers completed after computing different scores, and the cache
\* agrees with the snapshot
HandlersOfDifferentScoresCompleted ==
    /\ AllHandlersCompleted
    /\ recalcHandlers["h1"].trust_result.score # recalcHandlers["h2"].trust_result.score
    /\ \A row \in SnapshotsOf("u1") : trustScoreCache.value = row.score

====
